---------------------------- MODULE Spec2Model ----------------------------
(***************************************************************************)
(* Model of the MCP23S17 port-expander driver (sw/include/MCP23S17.h) and  *)
(* of its logical pin classes (sw/include/MCP23XXX.h).                     *)
(*                                                                         *)
(* The driver is a class template with static members only.  Its state is  *)
(* the template argument pack (the pin configuration), the static callback *)
(* of every SWITCH / ROTENC_PHASE_A pin, and the register file of the       *)
(* device at the other end of the SPI bus.  Every public member function    *)
(* is one action; an action runs the whole function, with every register    *)
(* transaction it issues.  The transactions of the most recent call are     *)
(* kept in `trace`, so that statements about what one call does are state   *)
(* predicates.                                                              *)
(***************************************************************************)
EXTENDS Integers, Sequences, FiniteSets, TLC

VARIABLES
    config,      \* the PinConfig... pack: a sequence of [idx, type] entries
    reg,         \* the device's 8-bit registers, by address
    pins,        \* electrical level of the 16 GP pins, a 16-bit word (bit i = pin index i)
    s_callback,  \* pin index -> stored callback ("unset" after static initialisation)
    lastOp,      \* the member function (or the device event) that ran last
    trace,       \* what that call did: transactions, notify() calls, callback calls
    result,      \* what that call returned (reads), or "void"
    SSPin,       \* level of the chip-select line (SSPin): TRUE is high, device deselected
    bus,         \* what that call did on the SPI bus: SSPin edges and bytes exchanged
    device,      \* what answers on the bus: the "MCP23S17", or a "simulated" register file
    isr,         \* where an onInterrupt() that runs step by step stands, with its locals
    fg,          \* where a foreground register transaction that runs step by step stands
    transitions  \* how many times the board changed pin levels

vars == <<config, reg, pins, s_callback, lastOp, trace, result, SSPin, bus, device,
          isr, fg, transitions>>

-----------------------------------------------------------------------------
(* Words, bits and pin indices                                             *)

\* the GP pins B0..B7 (0..7) and A0..A7 (8..15)
NumPins == 16
PinIdx == 0 .. (NumPins - 1)

\* _BV(bit): 1 << bit
BV(bit) ==
    <<1, 2, 4, 8, 16, 32, 64, 128, 256, 512, 1024, 2048, 4096, 8192, 16384, 32768>>[bit + 1]

\* (w & _BV(i)) != 0
Bit(w, i) == (w \div BV(i)) % 2 = 1

\* the low byte and the high byte of a 16-bit word
Lo(w) == w % 256
Hi(w) == (w \div 256) % 256

RECURSIVE WordOfFrom(_, _)
WordOfFrom(S, i) ==
    IF i = NumPins THEN 0
    ELSE (IF i \in S THEN BV(i) ELSE 0) + WordOfFrom(S, i + 1)

\* the 16-bit word with exactly the bits of S set
WordOf(S) == WordOfFrom(S, 0)

\* the set bits of a word
BitsOf(w) == {i \in PinIdx : Bit(w, i)}

\* bitwise operations on 16-bit words
And(a, b) == WordOf(BitsOf(a) \cap BitsOf(b))
Or(a, b) == WordOf(BitsOf(a) \cup BitsOf(b))
Xor(a, b) == WordOf((BitsOf(a) \ BitsOf(b)) \cup (BitsOf(b) \ BitsOf(a)))
AndNot(a, b) == WordOf(BitsOf(a) \ BitsOf(b))


-----------------------------------------------------------------------------
(* MCP23XXX.h: the pin types and the register bits each type asks for      *)

MCP23xxxPinType ==
    {"UNUSED", "OUTPUT", "INPUT", "INPUT_PU", "SWITCH", "ROTENC_PHASE_A", "ROTENC_PHASE_B"}

\* the types whose Pin class stores a callback and whose notify() may call it
CallbackTypes == {"SWITCH", "ROTENC_PHASE_A"}

\* a table in which an UNUSED pin is an input
s_IODIRBit_unusedInput(t) ==
    t \in {"UNUSED", "INPUT", "INPUT_PU", "SWITCH", "ROTENC_PHASE_A", "ROTENC_PHASE_B"}

s_IODIRBit(t) == t \in {"INPUT", "INPUT_PU", "SWITCH", "ROTENC_PHASE_A", "ROTENC_PHASE_B"}

s_IPOLBit(t) == t \in {"SWITCH", "ROTENC_PHASE_A", "ROTENC_PHASE_B"}

\* a table in which ROTENC_PHASE_B enables its interrupt as ROTENC_PHASE_A does
s_GPINTENBit_withPhaseB(t) == t \in {"SWITCH", "ROTENC_PHASE_A", "ROTENC_PHASE_B"}

s_GPINTENBit(t) == t \in {"SWITCH", "ROTENC_PHASE_A"}

\* a table in which a switch is compared against a default value
s_DEFVALBit_switch(t) == t = "SWITCH"

s_DEFVALBit(t) == FALSE

s_INTCONBit(t) == FALSE

\* a table in which only INPUT_PU enables the pull-up
s_GPPUBit_inputPuOnly(t) == t = "INPUT_PU"

s_GPPUBit(t) == t \in {"INPUT_PU", "SWITCH", "ROTENC_PHASE_A", "ROTENC_PHASE_B"}

-----------------------------------------------------------------------------
(* MCP23S17.h: the configuration pack and its resolution                   *)

\* MCP23S17PinConfig<t_pinIdx, t_pinType>
MCP23S17PinConfig(i, t) == [idx |-> i, type |-> t]

\* a resolver whose termination falls back to INPUT
RECURSIVE PinIdxToPinType_fallbackInput(_, _)
PinIdxToPinType_fallbackInput(idx, cfg) ==
    IF Len(cfg) = 0 THEN "ill-formed"
    ELSE IF Len(cfg) = 1
    THEN (IF idx = cfg[1].idx THEN cfg[1].type ELSE "INPUT")
    ELSE (IF idx = cfg[1].idx THEN cfg[1].type
          ELSE PinIdxToPinType_fallbackInput(idx, Tail(cfg)))

\* a resolver in which the last entry of the pack with the index decides
RECURSIVE PinIdxToPinType_lastWins(_, _)
PinIdxToPinType_lastWins(idx, cfg) ==
    IF Len(cfg) = 0 THEN "ill-formed"
    ELSE IF Len(cfg) = 1
    THEN (IF idx = cfg[1].idx THEN cfg[1].type ELSE "UNUSED")
    ELSE (IF \E k \in 2 .. Len(cfg) : cfg[k].idx = idx
          THEN PinIdxToPinType_lastWins(idx, Tail(cfg))
          ELSE IF idx = cfg[1].idx THEN cfg[1].type ELSE "UNUSED")

\* PinIdxToPinType<t_pinIdx, PinConfig...>::value: the first entry of the pack
\* with the index decides, the last entry falls back to UNUSED.  The primary
\* template needs at least one entry (CurrentPinConfig): for the empty pack
\* PinIdxToPinType<t_pinIdx> is ill-formed, there is no value.
RECURSIVE PinIdxToPinType(_, _)
PinIdxToPinType(idx, cfg) ==
    IF Len(cfg) = 0 THEN "ill-formed"
    ELSE IF Len(cfg) = 1
    THEN (IF idx = cfg[1].idx THEN cfg[1].type ELSE "UNUSED")
    ELSE (IF idx = cfg[1].idx THEN cfg[1].type ELSE PinIdxToPinType(idx, Tail(cfg)))

\* the member functions that name Pin<idx>, init() and onInterrupt(), can be
\* instantiated
Instantiable(cfg) == \A idx \in PinIdx : PinIdxToPinType(idx, cfg) \in MCP23xxxPinType

\* Pin<t_pinIdx>: the pin class the device instantiates for an index
PinTypeOf(idx) == PinIdxToPinType(idx, config)

\* a t_portA that takes the indices 0..7 for port A
t_portA_lowIndices(idx) == (idx \div 8) % 2 = 0

\* PinRegisterAccess<t_pinIdx, t_portA>: t_portA = idx & 0b1000
t_portA(idx) == (idx \div 8) % 2 = 1

\* PinRegisterAccess::getBitmask(): _BV(idx & 0b111)
getBitmask(idx) == BV(idx % 8)

-----------------------------------------------------------------------------
(* MCP23S17.h: register addresses (BANK = 0), opcodes, IOCON bits          *)

IODIRA == 0
IODIRB == 1
IPOLA == 2
IPOLB == 3
GPINTENA == 4
GPINTENB == 5
DEFVALA == 6
DEFVALB == 7
INTCONA == 8
INTCONB == 9
IOCON == 10
GPPUA == 12
GPPUB == 13
INTFA == 14
INTFB == 15
INTCAPA == 16
INTCAPB == 17
GPIOA == 18
GPIOB == 19
OLATA == 20
OLATB == 21

RegAddr ==
    {IODIRA, IODIRB, IPOLA, IPOLB, GPINTENA, GPINTENB, DEFVALA, DEFVALB, INTCONA,
     INTCONB, IOCON, GPPUA, GPPUB, INTFA, INTFB, INTCAPA, INTCAPB, GPIOA, GPIOB,
     OLATA, OLATB}

OPCODE_WRITE == 64
OPCODE_READ == 65

INTPOL == 1
ODR == 2
HAEN == 3
DISSLW == 4
SEQOP == 5
MIRROR == 6
BANK == 7

-----------------------------------------------------------------------------
(* The device at the other end of the bus, as far as the driver relies on  *)
(* it.  Port A (GPA0..7) is served by the xxxA registers and is the high    *)
(* byte of a register pair, port B (GPB0..7) by the xxxB registers.  Each   *)
(* port has its own interrupt condition: its flag register names the pins   *)
(* that caused it, its capture register holds the port value latched when   *)
(* it arose, and a read of the port's capture or GPIO register clears it.   *)

\* the registers the device stores (the GPIO registers show the pins)
DevRegs == RegAddr \ {GPIOA, GPIOB}

\* a register pair as a 16-bit word, bit i = pin index i
DevWord(r, addrA) == r[addrA] * 256 + r[addrA + 1]

\* state of the registers after power-on reset: all pins inputs, all else 0
PowerOnReset == [a \in DevRegs |-> IF a \in {IODIRA, IODIRB} THEN 255 ELSE 0]

\* pin i is an input of the device: its IODIR bit is set (a clear bit makes
\* the pin an output, driven from its OLAT bit)
DevIsInput(r, i) == Bit(DevWord(r, IODIRA), i)

\* the value of the GPIO register pair: an input shows its pin, inverted when
\* its IPOL bit is set; an output shows its latch
GpioWord(r, p) ==
    Or(And(Xor(p, DevWord(r, IPOLA)), DevWord(r, IODIRA)),
       AndNot(DevWord(r, OLATA), DevWord(r, IODIRA)))

\* the byte a read of one register returns
HwReadByte(r, p, addr) ==
    IF addr = GPIOA THEN Hi(GpioWord(r, p))
    ELSE IF addr = GPIOB THEN Lo(GpioWord(r, p))
    ELSE r[addr]

\* the registers after a read: reading INTCAP or GPIO of a port clears the
\* port's interrupt condition, the captured value stays
HwAfterRead(r, addr) ==
    IF addr \in {INTCAPA, GPIOA} THEN [r EXCEPT ![INTFA] = 0]
    ELSE IF addr \in {INTCAPB, GPIOB} THEN [r EXCEPT ![INTFB] = 0]
    ELSE r

\* the registers after a write: INTF and INTCAP are read-only, a write to
\* GPIO goes to the output latch
HwAfterWrite(r, addr, value) ==
    IF addr \in {INTFA, INTFB, INTCAPA, INTCAPB} THEN r
    ELSE IF addr = GPIOA THEN [r EXCEPT ![OLATA] = value]
    ELSE IF addr = GPIOB THEN [r EXCEPT ![OLATB] = value]
    ELSE [r EXCEPT ![addr] = value]

\* the pins of S change level.  A changed pin is an interrupt cause when it
\* is an input with its GPINTEN bit set and (INTCON bit clear) it changed, or
\* (INTCON bit set) it now differs from its DEFVAL bit.  A port with a cause
\* and no pending interrupt condition sets its flags and latches its value.
HwAfterPinChange(r, p, S) ==
    LET p2 == Xor(p, WordOf(S))
        g2 == GpioWord(r, p2)
        cause == {i \in S : /\ Bit(DevWord(r, GPINTENA), i)
                            /\ Bit(DevWord(r, IODIRA), i)
                            /\ (Bit(DevWord(r, INTCONA), i)
                                  => Bit(g2, i) # Bit(DevWord(r, DEFVALA), i))}
        causeA == {i \in cause : t_portA(i)}
        causeB == {i \in cause : ~t_portA(i)}
        rA == IF causeA # {} /\ r[INTFA] = 0
              THEN [r EXCEPT ![INTFA] = Hi(WordOf(causeA)), ![INTCAPA] = Hi(g2)]
              ELSE r
    IN  IF causeB # {} /\ r[INTFB] = 0
        THEN [rA EXCEPT ![INTFB] = Lo(WordOf(causeB)), ![INTCAPB] = Lo(g2)]
        ELSE rA

\* the interrupt output of the device: with MIRROR set the two INT pins are
\* OR-ed, the line is asserted while a port has an interrupt pending
IntAsserted(r) == r[INTFA] # 0 \/ r[INTFB] # 0

-----------------------------------------------------------------------------------------------------------------------------------------------------
(* The SPI side of the device.  A falling edge of chip-select starts a      *)
(* command: the first byte is the opcode, the second sets the address       *)
(* pointer, every further byte is data written to (opcode 0x40) or read     *)
(* from (opcode 0x41) the register the pointer selects, after which the     *)
(* pointer moves on.  A deselected device ignores the bus.  The simulated   *)
(* register file decodes commands the same way and stores every address as  *)
(* written.                                                                 *)

\* the addresses of the simulated register file
SimRegs == 0 .. 21

\* the device has seen no byte of a command
NoCommand == [n |-> 0, opcode |-> 0, ptr |-> 0]

\* the address pointer after a data byte: with SEQOP set (byte mode, BANK = 0)
\* it toggles within the A/B pair, otherwise it moves to the next register
\* (a register file without a control word has SEQOP clear)
NextPtr(r, ptr) ==
    IF IOCON \in DOMAIN r /\ Bit(r[IOCON], SEQOP)
    THEN (IF ptr % 2 = 0 THEN ptr + 1 ELSE ptr - 1)
    ELSE (ptr + 1) % 22

\* the registers after a data byte was written at the pointer
DevWrite(r, ptr, byte) ==
    IF device = "simulated"
    THEN (IF ptr \in DOMAIN r THEN [r EXCEPT ![ptr] = byte] ELSE r)
    ELSE (IF ptr \in RegAddr THEN HwAfterWrite(r, ptr, byte) ELSE r)

\* the data byte read at the pointer
DevRead(r, ptr) ==
    IF device = "simulated"
    THEN (IF ptr \in DOMAIN r THEN r[ptr] ELSE 0)
    ELSE (IF ptr \in RegAddr THEN HwReadByte(r, pins, ptr) ELSE 0)

\* the registers after a data byte was read at the pointer
DevAfterRead(r, ptr) ==
    IF device = "simulated" THEN r
    ELSE (IF ptr \in RegAddr THEN HwAfterRead(r, ptr) ELSE r)

-----------------------------------------------------------------------------
(* MCP23S17.h: the bus and the register transactions.  A call works on     *)
(* st = [reg, trace, ss, bus, sel]: the device registers, the log of the    *)
(* call so far, the level of SSPin, the bus log of the call so far and the  *)
(* command the device is decoding.  A function that returns a value gives   *)
(* [val, st].  The bus operations and the transactions take st, and a write *)
(* its value, through a bound variable (CHOOSE r \in {e : st \in {arg}} :   *)
(* TRUE is the value of e for st = arg), so that it is evaluated once.      *)

BusEvent(ev, byte) == [ev |-> ev, byte |-> byte]

\* SSPin::low(): select the device (active low)
SSPin_low(arg) ==
    CHOOSE r \in
      { [st EXCEPT !.ss = FALSE,
                   !.bus = Append(@, BusEvent("SS_low", -1)),
                   !.sel = IF st.ss THEN NoCommand ELSE @] : st \in {arg} } : TRUE

\* SSPin::high(): deselect the device
SSPin_high(arg) ==
    CHOOSE r \in
      { [st EXCEPT !.ss = TRUE, !.bus = Append(@, BusEvent("SS_high", -1))] : st \in {arg} } : TRUE

\* SPIMaster::put(byte): send one byte
SPIMaster_put(arg, byte) ==
    CHOOSE r \in
      { LET b == byte % 256
            s == [st EXCEPT !.bus = Append(@, BusEvent("put", b))]
        IN  IF st.ss THEN s
            ELSE IF st.sel.n = 0 THEN [s EXCEPT !.sel = [n |-> 1, opcode |-> b, ptr |-> 0]]
            ELSE IF st.sel.n = 1
                 THEN [s EXCEPT !.sel = [n |-> 2, opcode |-> st.sel.opcode, ptr |-> b]]
            ELSE IF st.sel.opcode = OPCODE_WRITE
                 THEN [s EXCEPT !.reg = DevWrite(st.reg, st.sel.ptr, b),
                                !.sel = [n |-> 2, opcode |-> st.sel.opcode,
                                         ptr |-> NextPtr(st.reg, st.sel.ptr)]]
            ELSE s : st \in {arg} } : TRUE

\* SPIMaster::get(): receive one byte
SPIMaster_get(arg) ==
    CHOOSE r \in
      { IF ~st.ss /\ st.sel.n = 2 /\ st.sel.opcode = OPCODE_READ
        THEN LET b == DevRead(st.reg, st.sel.ptr)
             IN  [val |-> b,
                  st |-> [st EXCEPT !.bus = Append(@, BusEvent("get", b)),
                                    !.reg = DevAfterRead(st.reg, st.sel.ptr),
                                    !.sel = [n |-> 2, opcode |-> st.sel.opcode,
                                             ptr |-> NextPtr(st.reg, st.sel.ptr)]]]
        ELSE [val |-> 255, st |-> [st EXCEPT !.bus = Append(@, BusEvent("get", 255))]]
        : st \in {arg} } : TRUE

Transaction(op, addr, value) == [op |-> op, addr |-> addr, value |-> value]

\* writeRegister(t_registerAddress, value): one byte
writeRegister(arg, addr, value) ==
    CHOOSE r \in
      { LET s1 == SSPin_low(st)
            s2 == SPIMaster_put(s1, OPCODE_WRITE)
            s3 == SPIMaster_put(s2, addr)
            s4 == SPIMaster_put(s3, v)
            s5 == SSPin_high(s4)
        IN  [s5 EXCEPT !.trace = Append(@, Transaction("writeRegister", addr, v % 256))]
        : st \in {arg}, v \in {value} } : TRUE

\* a readRegister() that returns without SSPin::high()
readRegister_noDeselect(arg, addr) ==
    CHOOSE r \in
      { LET s1 == SSPin_low(st)
            s2 == SPIMaster_put(s1, OPCODE_READ)
            s3 == SPIMaster_put(s2, addr)
            g == SPIMaster_get(s3)
        IN  [val |-> g.val,
             st |-> [g.st EXCEPT !.trace = Append(@, Transaction("readRegister", addr, g.val))]]
        : st \in {arg} } : TRUE

\* readRegister(t_registerAddress): one byte
readRegister(arg, addr) ==
    CHOOSE r \in
      { LET s1 == SSPin_low(st)
            s2 == SPIMaster_put(s1, OPCODE_READ)
            s3 == SPIMaster_put(s2, addr)
            g == SPIMaster_get(s3)
            s5 == SSPin_high(g.st)
        IN  [val |-> g.val,
             st |-> [s5 EXCEPT !.trace = Append(@, Transaction("readRegister", addr, g.val))]]
        : st \in {arg} } : TRUE

\* writeRegisterPair(t_registerAddress, value): value >> 8 first (register
\* A, MSB), then value (register B, LSB)
writeRegisterPair(arg, addr, value) ==
    CHOOSE r \in
      { LET s1 == SSPin_low(st)
            s2 == SPIMaster_put(s1, OPCODE_WRITE)
            s3 == SPIMaster_put(s2, addr)
            s4 == SPIMaster_put(s3, v \div 256)
            s5 == SPIMaster_put(s4, v)
            s6 == SSPin_high(s5)
        IN  [s6 EXCEPT !.trace = Append(@, Transaction("writeRegisterPair", addr, v % 65536))]
        : st \in {arg}, v \in {value} } : TRUE

\* a readRegisterPair() that deselects the device before the second byte
readRegisterPair_earlyDeselect(arg, addr) ==
    CHOOSE r \in
      { LET s1 == SSPin_low(st)
            s2 == SPIMaster_put(s1, OPCODE_READ)
            s3 == SPIMaster_put(s2, addr)
            gA == SPIMaster_get(s3)
            s5 == SSPin_high(gA.st)
            gB == SPIMaster_get(s5)
            value == (gA.val * 256 + gB.val) % 65536
        IN  [val |-> value,
             st |-> [gB.st EXCEPT !.trace = Append(@, Transaction("readRegisterPair", addr, value))]]
        : st \in {arg} } : TRUE

\* a readRegisterPair() that takes the first byte received as the low byte
readRegisterPair_lowFirst(arg, addr) ==
    CHOOSE r \in
      { LET s1 == SSPin_low(st)
            s2 == SPIMaster_put(s1, OPCODE_READ)
            s3 == SPIMaster_put(s2, addr)
            gA == SPIMaster_get(s3)
            gB == SPIMaster_get(gA.st)
            s6 == SSPin_high(gB.st)
            value == (gB.val * 256 + gA.val) % 65536
        IN  [val |-> value,
             st |-> [s6 EXCEPT !.trace = Append(@, Transaction("readRegisterPair", addr, value))]]
        : st \in {arg} } : TRUE

\* readRegisterPair(t_registerAddress): (valueA << 8) + valueB
readRegisterPair(arg, addr) ==
    CHOOSE r \in
      { LET s1 == SSPin_low(st)
            s2 == SPIMaster_put(s1, OPCODE_READ)
            s3 == SPIMaster_put(s2, addr)
            gA == SPIMaster_get(s3)
            gB == SPIMaster_get(gA.st)
            s6 == SSPin_high(gB.st)
            value == (gA.val * 256 + gB.val) % 65536
        IN  [val |-> value,
             st |-> [s6 EXCEPT !.trace = Append(@, Transaction("readRegisterPair", addr, value))]]
        : st \in {arg} } : TRUE

-----
(* MCP23S17.h / MCP23XXX.h: the pin classes                                *)

\* a readINTCAP() whose port A specialization reads the port B register
readINTCAP_portBOnly(st, idx) ==
    LET r == readRegister(st, INTCAPB)
    IN  [val |-> (r.val \div getBitmask(idx)) % 2 = 1, st |-> r.st]

\* PinRegisterAccess<t_pinIdx>::readINTCAP(): readRegister(INTCAPA or INTCAPB)
\* & getBitmask(), as a bool
readINTCAP(st, idx) ==
    LET r == readRegister(st, IF t_portA(idx) THEN INTCAPA ELSE INTCAPB)
    IN  [val |-> (r.val \div getBitmask(idx)) % 2 = 1, st |-> r.st]

\* PinRegisterAccess<t_pinIdx>::readGPIO()
readGPIO(st, idx) ==
    LET r == readRegister(st, IF t_portA(idx) THEN GPIOA ELSE GPIOB)
    IN  [val |-> (r.val \div getBitmask(idx)) % 2 = 1, st |-> r.st]

\* a writeOLAT() that goes through the GPIO register instead of the latch
writeOLAT_viaGPIO(st, idx, bValue) ==
    LET GPIO == IF t_portA(idx) THEN GPIOA ELSE GPIOB
        r == readRegister(st, GPIO)
    IN  IF bValue
        THEN writeRegister(r.st, GPIO, Or(r.val, getBitmask(idx)))
        ELSE writeRegister(r.st, GPIO, AndNot(r.val, getBitmask(idx)))

\* PinRegisterAccess<t_pinIdx, true>::writeOLATA(bValue) (port A) and
\* PinRegisterAccess<t_pinIdx, false>::writeOLAT(bValue) (port B): read the
\* latch register of the port, set or clear the bit of the pin, write it back
writeOLAT(st, idx, bValue) ==
    LET OLAT == IF t_portA(idx) THEN OLATA ELSE OLATB
        r == readRegister(st, OLAT)
    IN  IF bValue
        THEN writeRegister(r.st, OLAT, Or(r.val, getBitmask(idx)))
        ELSE writeRegister(r.st, OLAT, AndNot(r.val, getBitmask(idx)))

\* the member functions of PinRegisterAccess<t_pinIdx>, all protected: the
\* port A specialization names its latch write writeOLATA
PinRegisterAccessMembers(portA) ==
    IF portA THEN {"readINTCAP", "readGPIO", "writeOLATA"}
    ELSE {"readINTCAP", "readGPIO", "writeOLAT"}

\* the public member functions of Pin<PinOnDevice, t_PinType>; the base
\* PinOnDevice is a private base, its members are not members of the handle
PinMembers(t) ==
    CASE t \in {"SWITCH", "ROTENC_PHASE_A"} -> {"registerCallback", "notify"}
      [] t = "ROTENC_PHASE_B" -> {"read", "notify"}
      [] OTHER -> {"notify"}

\* a read() that returns the live level, as the read() of an input pin would
PhaseB_read_live(st, idx) == readGPIO(st, idx)

\* Pin<idx>::read() of a ROTENC_PHASE_B pin
PhaseB_read(st, idx) == readINTCAP(st, idx)

\* the ROTENC_PHASE_B pins of the pack
PhaseBPins == {i \in PinIdx : PinTypeOf(i) = "ROTENC_PHASE_B"}

\* s_callback(): the call of the stored function object
CallbackCall(idx) == [op |-> "s_callback", pin |-> idx, fn |-> s_callback[idx]]

\* what the called function does.  The firmware's callbacks "f" and "g" do
\* not use the bus; "readsPhaseB" is an encoder handler: it calls read() of
\* the (first) ROTENC_PHASE_B pin of the pack
CallbackBody(st, idx) ==
    IF s_callback[idx] = "readsPhaseB" /\ PhaseBPins # {}
    THEN PhaseB_read(st, CHOOSE i \in PhaseBPins : \A j \in PhaseBPins : i <= j)
    ELSE [val |-> FALSE, st |-> st]

\* s_callback() with what it does
RunCallback(st, idx) ==
    CallbackBody([st EXCEPT !.trace = Append(@, CallbackCall(idx))], idx).st

\* a notify() that calls the callback without testing the capture bit
notify_ignoresCapture(st, idx) ==
    IF PinTypeOf(idx) \in {"SWITCH", "ROTENC_PHASE_A"}
    THEN RunCallback(readINTCAP(st, idx).st, idx)
    ELSE st

\* Pin<idx>::notify(): SWITCH and ROTENC_PHASE_A read the capture bit and call
\* the stored callback when it is set; every other pin class has a dummy
notify(st, idx) ==
    IF PinTypeOf(idx) \in {"SWITCH", "ROTENC_PHASE_A"}
    THEN LET c == readINTCAP(st, idx)
         IN  IF c.val
             THEN RunCallback(c.st, idx)
             ELSE c.st
    ELSE st

-----------------------------------------------------------------------------
(* MCP23S17.h: the device class                                            *)

\* a reArmInterrupt() that first switches the interrupt enables off
reArmInterrupt_masks(st) == readRegisterPair(writeRegisterPair(st, GPINTENA, 0), INTCAPA).st

\* reArmInterrupt()
reArmInterrupt(st) == readRegisterPair(st, INTCAPA).st

\* the call Pin<idx>::notify() in onInterrupt()
NotifyCall(idx) == [op |-> "notify", pin |-> idx]

\* the sixteen if-blocks of onInterrupt(), from block i on
RECURSIVE DispatchFrom(_, _, _)
DispatchFrom(st, INTF, i) ==
    IF i = NumPins THEN st
    ELSE DispatchFrom(IF Bit(INTF, i)
                      THEN notify([st EXCEPT !.trace = Append(@, NotifyCall(i))], i)
                      ELSE st,
                      INTF, i + 1)

\* an onInterrupt() whose if-blocks are chained with else: only the first
\* flagged pin is notified
onInterrupt_elseIf(st) ==
    LET f == readRegisterPair(st, INTFA)
        first == IF f.val = 0 THEN 0
                 ELSE BV(CHOOSE i \in BitsOf(f.val) : \A j \in BitsOf(f.val) : i <= j)
    IN  DispatchFrom(f.st, first, 0)

\* an onInterrupt() that ends with reArmInterrupt()
onInterrupt_reArms(st) ==
    LET f == readRegisterPair(st, INTFA)
    IN  reArmInterrupt(DispatchFrom(f.st, f.val, 0))

\* onInterrupt(): read the flags, then notify the flagged pins B0..B7, A0..A7
onInterrupt(st) ==
    LET f == readRegisterPair(st, INTFA)
    IN  DispatchFrom(f.st, f.val, 0)

\* Pin<idx>::s_xxxBit of a pin of type t, for the register pair at addr
PinBit(addr, t) ==
    CASE addr = IODIRA -> s_IODIRBit(t)
      [] addr = IPOLA -> s_IPOLBit(t)
      [] addr = GPINTENA -> s_GPINTENBit(t)
      [] addr = DEFVALA -> s_DEFVALBit(t)
      [] addr = INTCONA -> s_INTCONBit(t)
      [] addr = GPPUA -> s_GPPUBit(t)

\* a sum in which index B0 contributes its term twice
RECURSIVE ImageFrom_twoTermsB0(_, _)
ImageFrom_twoTermsB0(addr, i) ==
    IF i = NumPins THEN 0
    ELSE (IF PinBit(addr, PinTypeOf(i)) THEN (IF i = 0 THEN 2 ELSE 1) * BV(i) ELSE 0)
         + ImageFrom_twoTermsB0(addr, i + 1)

RECURSIVE ImageFrom(_, _)
ImageFrom(addr, i) ==
    IF i = NumPins THEN 0
    ELSE (IF PinBit(addr, PinTypeOf(i)) THEN BV(i) ELSE 0) + ImageFrom(addr, i + 1)

\* an image cut to 15 bits: the term of A7 is lost
Image_int15(addr) == ImageFrom(addr, 0) % 32768

\* the value init() passes to writeRegisterPair(addr, ...): the sum of the
\* sixteen terms Pin<idx>::s_xxxBit ? _BV(idx) : 0, as a uint16_t
Image(addr) == ImageFrom(addr, 0) % 65536

\* checkConfig(): an empty body, nothing is asserted (the check for pins
\* used twice is a todo)
checkConfig(cfg) == TRUE

\* an init() that leaves out the closing reArmInterrupt()
init_noReArm(st, intActiveHigh) ==
    LET valueIOCON == BV(SEQOP) + BV(MIRROR) + (IF intActiveHigh THEN BV(INTPOL) ELSE 0)
        s0 == writeRegister(st, IOCON, valueIOCON)
        s1 == writeRegisterPair(s0, IODIRA, Image(IODIRA))
        s2 == writeRegisterPair(s1, IPOLA, Image(IPOLA))
        s3 == writeRegisterPair(s2, GPINTENA, Image(GPINTENA))
        s4 == writeRegisterPair(s3, DEFVALA, Image(DEFVALA))
        s5 == writeRegisterPair(s4, INTCONA, Image(INTCONA))
    IN  writeRegisterPair(s5, GPPUA, Image(GPPUA))

\* an init() that tests intActiveHigh the wrong way round
init_intpolInverted(st, intActiveHigh) ==
    LET valueIOCON == BV(SEQOP) + BV(MIRROR) + (IF intActiveHigh THEN 0 ELSE BV(INTPOL))
        s0 == writeRegister(st, IOCON, valueIOCON)
        s1 == writeRegisterPair(s0, IODIRA, Image(IODIRA))
        s2 == writeRegisterPair(s1, IPOLA, Image(IPOLA))
        s3 == writeRegisterPair(s2, GPINTENA, Image(GPINTENA))
        s4 == writeRegisterPair(s3, DEFVALA, Image(DEFVALA))
        s5 == writeRegisterPair(s4, INTCONA, Image(INTCONA))
        s6 == writeRegisterPair(s5, GPPUA, Image(GPPUA))
    IN  reArmInterrupt(s6)

\* init(intActiveHigh): checkConfig(), the control word, the six images,
\* reArmInterrupt()
init(st, intActiveHigh) ==
    IF ~checkConfig(config) THEN st
    ELSE
    LET valueIOCON == BV(SEQOP) + BV(MIRROR) + (IF intActiveHigh THEN BV(INTPOL) ELSE 0)
        s0 == writeRegister(st, IOCON, valueIOCON)
        s1 == writeRegisterPair(s0, IODIRA, Image(IODIRA))
        s2 == writeRegisterPair(s1, IPOLA, Image(IPOLA))
        s3 == writeRegisterPair(s2, GPINTENA, Image(GPINTENA))
        s4 == writeRegisterPair(s3, DEFVALA, Image(DEFVALA))
        s5 == writeRegisterPair(s4, INTCONA, Image(INTCONA))
        s6 == writeRegisterPair(s5, GPPUA, Image(GPPUA))
    IN  reArmInterrupt(s6)

\* read(): I/O port A+B
read(st) == readRegisterPair(st, GPIOA)

\* readA(): I/O port A
readA(st) == readRegister(st, GPIOA)

\* readB(): I/O port B
readB(st) == readRegister(st, GPIOB)

-----------------------------------------------------------------------------
(* The calls: every public member function is one action                   *)

\* the callbacks the firmware registers
Callbacks == {"f", "g"}

\* a call starts with the device as it is and an empty log
St0 == [reg |-> reg, trace |-> << >>, ss |-> SSPin, bus |-> << >>, sel |-> NoCommand]

\* no onInterrupt() runs step by step: INTF is the local variable of
\* onInterrupt(), i the if-block that is next, cap the capture word the
\* device held when the flags were read, used the capture values the call
\* has used so far, calls the number of calls begun
IsrIdle == [pc |-> "idle", INTF |-> 0, i |-> 0, cap |-> 0, used |-> << >>, calls |-> 0]

\* no foreground transaction runs step by step: op is the function, k the
\* number of its bus operations done, sel the command the device is decoding
FgIdle == [op |-> "none", k |-> 0, sel |-> NoCommand]

\* a call in progress goes on with the device, the logs and SSPin as they are
StNow == [reg |-> reg, trace |-> trace, ss |-> SSPin, bus |-> bus, sel |-> fg.sel]

\* the call has returned: what it left on the device, in the logs and on SSPin
Returned(s) ==
    /\ reg' = s.reg
    /\ trace' = s.trace
    /\ SSPin' = s.ss
    /\ bus' = s.bus

\* a step that does not use the bus
NoBus ==
    /\ trace' = << >>
    /\ bus' = << >>
    /\ UNCHANGED SSPin

Op(name, pin) == [name |-> name, pin |-> pin]

Call_init(intActiveHigh) ==
    LET s == init(St0, intActiveHigh)
    IN  /\ Returned(s)
        /\ lastOp' = Op("init", -1)
        /\ result' = -1
        /\ UNCHANGED <<config, pins, s_callback, device, isr, fg, transitions>>

Call_onInterrupt ==
    LET s == onInterrupt(St0)
    IN  /\ Returned(s)
        /\ lastOp' = Op("onInterrupt", -1)
        /\ result' = -1
        /\ UNCHANGED <<config, pins, s_callback, device, isr, fg, transitions>>

Call_reArmInterrupt ==
    LET s == reArmInterrupt(St0)
    IN  /\ Returned(s)
        /\ lastOp' = Op("reArmInterrupt", -1)
        /\ result' = -1
        /\ UNCHANGED <<config, pins, s_callback, device, isr, fg, transitions>>

\* read(), readA(), readB() of the device class
Call_read ==
    LET r == read(St0)
    IN  /\ Returned(r.st)
        /\ result' = r.val
        /\ lastOp' = Op("readAB", -1)
        /\ UNCHANGED <<config, pins, s_callback, device, isr, fg, transitions>>

Call_readA ==
    LET r == readA(St0)
    IN  /\ Returned(r.st)
        /\ result' = r.val
        /\ lastOp' = Op("readA", -1)
        /\ UNCHANGED <<config, pins, s_callback, device, isr, fg, transitions>>

Call_readB ==
    LET r == readB(St0)
    IN  /\ Returned(r.st)
        /\ result' = r.val
        /\ lastOp' = Op("readB", -1)
        /\ UNCHANGED <<config, pins, s_callback, device, isr, fg, transitions>>

\* Pin<idx>::read(), which only the ROTENC_PHASE_B pin class has
Call_PhaseB_read(idx) ==
    /\ PinTypeOf(idx) = "ROTENC_PHASE_B"
    /\ LET r == PhaseB_read(St0, idx)
       IN  /\ Returned(r.st)
           /\ result' = IF r.val THEN 1 ELSE 0
    /\ lastOp' = Op("read", idx)
    /\ UNCHANGED <<config, pins, s_callback, device, isr, fg, transitions>>

\* a registerCallback() whose s_callback is one object for all pin classes
Call_registerCallback_sharedStatic(idx, callback) ==
    /\ PinTypeOf(idx) \in {"SWITCH", "ROTENC_PHASE_A"}
    /\ s_callback' = [j \in PinIdx |->
                         IF PinTypeOf(j) \in {"SWITCH", "ROTENC_PHASE_A"}
                         THEN callback ELSE s_callback[j]]
    /\ lastOp' = Op("registerCallback", idx)
    /\ NoBus
    /\ result' = -1
    /\ UNCHANGED <<config, reg, pins, device, isr, fg, transitions>>

\* a registerCallback() that keeps a callback that is already stored
Call_registerCallback_keepFirst(idx, callback) ==
    /\ PinTypeOf(idx) \in {"SWITCH", "ROTENC_PHASE_A"}
    /\ s_callback' = IF s_callback[idx] = "unset"
                     THEN [s_callback EXCEPT ![idx] = callback]
                     ELSE s_callback
    /\ lastOp' = Op("registerCallback", idx)
    /\ NoBus
    /\ result' = -1
    /\ UNCHANGED <<config, reg, pins, device, isr, fg, transitions>>

\* Pin<idx>::registerCallback(callback), which only the SWITCH and the
\* ROTENC_PHASE_A pin class have: s_callback = callback
Call_registerCallback(idx, callback) ==
    /\ PinTypeOf(idx) \in {"SWITCH", "ROTENC_PHASE_A"}
    /\ s_callback' = [s_callback EXCEPT ![idx] = callback]
    /\ lastOp' = Op("registerCallback", idx)
    /\ NoBus
    /\ result' = -1
    /\ UNCHANGED <<config, reg, pins, device, isr, fg, transitions>>

-----------------------------------------------------------------------------
(* The register-level functions called on their own, as a test bench calls  *)
(* them against a register file: at most one write sets the file up, then   *)
(* the function under test runs.                                            *)

OpT(name, pin, addr, value) == [name |-> name, pin |-> pin, addr |-> addr, value |-> value]

\* nothing was called yet
Fresh == lastOp.name = "none"

\* nothing was called yet, or one register write to set the file up
AfterSetup == lastOp.name \in {"none", "writeRegister", "writeRegisterPair"}

Call_writeRegister(addr, value) ==
    /\ Fresh
    /\ Returned(writeRegister(St0, addr, value))
    /\ lastOp' = OpT("writeRegister", -1, addr, value)
    /\ result' = -1
    /\ UNCHANGED <<config, pins, s_callback, device, isr, fg, transitions>>

Call_writeRegisterPair(addr, value) ==
    /\ Fresh
    /\ Returned(writeRegisterPair(St0, addr, value))
    /\ lastOp' = OpT("writeRegisterPair", -1, addr, value)
    /\ result' = -1
    /\ UNCHANGED <<config, pins, s_callback, device, isr, fg, transitions>>

Call_readRegister(addr) ==
    /\ AfterSetup
    /\ LET r == readRegister(St0, addr)
       IN  /\ Returned(r.st)
           /\ result' = r.val
    /\ lastOp' = OpT("readRegister", -1, addr, -1)
    /\ UNCHANGED <<config, pins, s_callback, device, isr, fg, transitions>>

Call_readRegisterPair(addr) ==
    /\ AfterSetup
    /\ LET r == readRegisterPair(St0, addr)
       IN  /\ Returned(r.st)
           /\ result' = r.val
    /\ lastOp' = OpT("readRegisterPair", -1, addr, -1)
    /\ UNCHANGED <<config, pins, s_callback, device, isr, fg, transitions>>

Call_readINTCAP(idx) ==
    /\ AfterSetup
    /\ LET r == readINTCAP(St0, idx)
       IN  /\ Returned(r.st)
           /\ result' = IF r.val THEN 1 ELSE 0
    /\ lastOp' = OpT("readINTCAP", idx, -1, -1)
    /\ UNCHANGED <<config, pins, s_callback, device, isr, fg, transitions>>

Call_readGPIO(idx) ==
    /\ AfterSetup
    /\ LET r == readGPIO(St0, idx)
       IN  /\ Returned(r.st)
           /\ result' = IF r.val THEN 1 ELSE 0
    /\ lastOp' = OpT("readGPIO", idx, -1, -1)
    /\ UNCHANGED <<config, pins, s_callback, device, isr, fg, transitions>>

Call_writeOLAT(idx, bValue) ==
    /\ AfterSetup
    /\ Returned(writeOLAT(St0, idx, bValue))
    /\ lastOp' = OpT("writeOLAT", idx, -1, IF bValue THEN 1 ELSE 0)
    /\ result' = -1
    /\ UNCHANGED <<config, pins, s_callback, device, isr, fg, transitions>>

-----------------------------------------------------------------------------
(* The board: what is wired to the pins changes their level                *)

\* how many pins may change level at the same instant
MaxSimul == 2

\* the pins something is wired to: the configured pins that are inputs
Wired == {i \in PinIdx : s_IODIRBit(PinTypeOf(i))}

PinChange(S) ==
    /\ S # {}
    /\ Cardinality(S) <= MaxSimul
    /\ reg' = HwAfterPinChange(reg, pins, S)
    /\ pins' = Xor(pins, WordOf(S))
    /\ lastOp' = Op("pinChange", -1)
    /\ NoBus
    /\ result' = -1
    /\ UNCHANGED <<config, s_callback, device, isr, fg, transitions>>

-----------------------------------------------------------------------------
(* Spec: the driver on a device that starts from power-on reset            *)

B0 == 0
B7 == 7
A0 == 8
A7 == 15

\* the configurations the device class is instantiated with
DynConfigs ==
    { << MCP23S17PinConfig(B0, "SWITCH") >>,
      << MCP23S17PinConfig(1, "ROTENC_PHASE_A"), MCP23S17PinConfig(2, "ROTENC_PHASE_B") >>,
      << MCP23S17PinConfig(A7, "ROTENC_PHASE_A"), MCP23S17PinConfig(14, "ROTENC_PHASE_B"),
         MCP23S17PinConfig(14, "INPUT") >>,
      << MCP23S17PinConfig(B7, "SWITCH"), MCP23S17PinConfig(A0, "ROTENC_PHASE_A"),
         MCP23S17PinConfig(B0, "UNUSED"), MCP23S17PinConfig(4, "UNUSED") >>,
      << MCP23S17PinConfig(B0, "OUTPUT"), MCP23S17PinConfig(3, "INPUT"),
         MCP23S17PinConfig(9, "INPUT_PU"), MCP23S17PinConfig(10, "SWITCH"),
         MCP23S17PinConfig(10, "OUTPUT"), MCP23S17PinConfig(B0, "SWITCH") >> }

Init ==
    /\ config \in DynConfigs
    /\ reg = PowerOnReset
    /\ pins = 65535
    /\ s_callback = [i \in PinIdx |-> "unset"]
    /\ lastOp = Op("none", -1)
    /\ trace = << >>
    /\ result = -1
    /\ SSPin = TRUE
    /\ bus = << >>
    /\ device = "MCP23S17"
    /\ isr = IsrIdle
    /\ fg = FgIdle
    /\ transitions = 0

Next ==
    \/ \E b \in BOOLEAN : Call_init(b)
    \/ Call_onInterrupt
    \/ Call_reArmInterrupt
    \/ \E i \in PinIdx : Call_PhaseB_read(i)
    \/ Call_read
    \/ Call_readA
    \/ Call_readB
    \/ \E i \in PinIdx, cb \in Callbacks : Call_registerCallback(i, cb)
    \/ \E S \in SUBSET Wired : PinChange(S)

Spec == Init /\ [][Next]_vars

-----------------------------------------------------------------------------
(* SpecSim: onInterrupt() as a function of what the bus returns.  The       *)
(* register file starts with any flag word of at most MaxFlags bits and any *)
(* capture word for the flagged pins, as a simulated register file holds    *)
(* them: the flagged pins may be of any type.                               *)

\* how many flag bits the flag word holds at most
MaxFlags == 3

\* one configuration with every pin type, on both ports
CfgAllTypes ==
    << MCP23S17PinConfig(B0, "OUTPUT"), MCP23S17PinConfig(1, "INPUT"),
       MCP23S17PinConfig(2, "INPUT_PU"), MCP23S17PinConfig(3, "SWITCH"),
       MCP23S17PinConfig(4, "ROTENC_PHASE_A"), MCP23S17PinConfig(5, "ROTENC_PHASE_B"),
       MCP23S17PinConfig(A0, "SWITCH"), MCP23S17PinConfig(14, "ROTENC_PHASE_B"),
       MCP23S17PinConfig(A7, "ROTENC_PHASE_A") >>

SimConfigs == {CfgAllTypes}

\* nothing registered yet, or f on every SWITCH pin and g on every ROTENC_PHASE_A pin
SimCallbacks(cfg) ==
    { [i \in PinIdx |-> "unset"],
      [i \in PinIdx |-> CASE PinIdxToPinType(i, cfg) = "SWITCH" -> "f"
                          [] PinIdxToPinType(i, cfg) = "ROTENC_PHASE_A" -> "g"
                          [] OTHER -> "unset"] }

InitSim ==
    /\ config \in SimConfigs
    /\ \E F \in SUBSET PinIdx :
          /\ Cardinality(F) <= MaxFlags
          /\ \E C \in SUBSET F :
                reg = [PowerOnReset EXCEPT ![INTFA] = Hi(WordOf(F)), ![INTFB] = Lo(WordOf(F)),
                                           ![INTCAPA] = Hi(WordOf(C)), ![INTCAPB] = Lo(WordOf(C))]
    /\ pins = 65535
    /\ s_callback \in SimCallbacks(config)
    /\ lastOp = Op("none", -1)
    /\ trace = << >>
    /\ result = -1
    /\ SSPin = TRUE
    /\ bus = << >>
    /\ device = "MCP23S17"
    /\ isr = IsrIdle
    /\ fg = FgIdle
    /\ transitions = 0

NextSim ==
    \/ Call_onInterrupt
    \/ Call_reArmInterrupt

SpecSim == InitSim /\ [][NextSim]_vars

-----------------------------------------------------------------------------
(* SpecTransport: the register-level functions and the calls of the device  *)
(* class against a simulated register file, which stores every address as   *)
(* written and starts cleared                                               *)

\* the bytes and the 16-bit words the functions are called with
ByteVals == {0, 1, 165, 255}
WordVals == {hi * 256 + lo : hi \in ByteVals, lo \in ByteVals}

\* the addresses of the register pairs (their A register)
PairAddr ==
    {IODIRA, IPOLA, GPINTENA, DEFVALA, INTCONA, GPPUA, INTFA, INTCAPA, GPIOA, OLATA}

InitTransport ==
    /\ config = CfgAllTypes
    /\ reg = [a \in SimRegs |-> 0]
    /\ pins = 65535
    /\ s_callback = [i \in PinIdx |-> "unset"]
    /\ lastOp = Op("none", -1)
    /\ trace = << >>
    /\ result = -1
    /\ SSPin = TRUE
    /\ bus = << >>
    /\ device = "simulated"
    /\ isr = IsrIdle
    /\ fg = FgIdle
    /\ transitions = 0

NextTransport ==
    \/ \E a \in SimRegs, v \in ByteVals : Call_writeRegister(a, v)
    \/ \E a \in PairAddr, v \in WordVals : Call_writeRegisterPair(a, v)
    \/ \E a \in SimRegs : Call_readRegister(a)
    \/ \E a \in PairAddr : Call_readRegisterPair(a)
    \/ \E i \in PinIdx : Call_readINTCAP(i)
    \/ \E i \in PinIdx : Call_readGPIO(i)
    \/ \E i \in PinIdx, b \in BOOLEAN : Call_writeOLAT(i, b)
    \/ AfterSetup /\ \E b \in BOOLEAN : Call_init(b)
    \/ AfterSetup /\ Call_onInterrupt
    \/ AfterSetup /\ Call_reArmInterrupt
    \/ AfterSetup /\ Call_read
    \/ AfterSetup /\ Call_readA
    \/ AfterSetup /\ Call_readB

SpecTransport == InitTransport /\ [][NextTransport]_vars

-----------------------------------------------------------------------------
(* SpecImage: init() as a function of the configuration pack                *)

\* how many entries the pack holds at most
MaxPack == 2

\* the indices the entries of the pack are drawn from
PackPins == {B0, B7, A0, A7}

PackEntries == {MCP23S17PinConfig(i, t) : i \in PackPins, t \in MCP23xxxPinType}

Packs == UNION {[1 .. n -> PackEntries] : n \in 0 .. MaxPack}

\* the packs with one entry for each of the sixteen indices, all of one type
FullPacks ==
    {[k \in 1 .. NumPins |-> MCP23S17PinConfig(k - 1, t)] : t \in {"SWITCH", "INPUT_PU"}}

InitImage ==
    /\ config \in Packs \cup FullPacks
    /\ reg = PowerOnReset
    /\ pins = 65535
    /\ s_callback = [i \in PinIdx |-> "unset"]
    /\ lastOp = Op("none", -1)
    /\ trace = << >>
    /\ result = -1
    /\ SSPin = TRUE
    /\ bus = << >>
    /\ device = "MCP23S17"
    /\ isr = IsrIdle
    /\ fg = FgIdle
    /\ transitions = 0

NextImage == \E b \in BOOLEAN : Instantiable(config) /\ Call_init(b)

SpecImage == InitImage /\ [][NextImage]_vars

-----------------------------------------------------------------------------
(* Calls that run step by step.  onInterrupt() is cut at its sequence       *)
(* points: the read of the flags, notify() of a flagged pin up to the end   *)
(* of its capture read, the call of the callback, the return.  A foreground *)
(* register transaction is cut into its bus operations.  Between two steps  *)
(* the board may change pin levels; the logs of the call go on.             *)

\* how many times the board changes pin levels at most
MaxTransitions == 3

\* the count of onInterrupt() calls stops here
MaxCalls == MaxTransitions + 1

\* the board changes pin levels while calls may be in progress
PinTransition(S) ==
    /\ S # {}
    /\ Cardinality(S) <= MaxSimul
    /\ transitions < MaxTransitions
    /\ reg' = HwAfterPinChange(reg, pins, S)
    /\ pins' = Xor(pins, WordOf(S))
    /\ transitions' = transitions + 1
    /\ UNCHANGED <<config, s_callback, lastOp, trace, result, SSPin, bus, device, isr, fg>>

\* the callback an encoder firmware registers
IsrCallbacks == {"readsPhaseB"}

\* the set-up phase of the firmware: callbacks are registered, then init()
Setup == lastOp.name \in {"none", "registerCallback"}

\* the first flagged if-block of onInterrupt() from block i on, NumPins if
\* there is none
NextFlagged(INTF, i) ==
    LET F == {j \in BitsOf(INTF) : j >= i}
    IN  IF F = {} THEN NumPins ELSE CHOOSE j \in F : \A l \in F : j <= l

\* onInterrupt(), first statement: INTF = readRegisterPair(INTF)
Isr_readFlags ==
    /\ isr.pc = "idle"
    /\ fg.op = "none"
    /\ IntAsserted(reg)
    /\ LET f == readRegisterPair(St0, INTFA)
       IN  /\ Returned(f.st)
           /\ isr' = [pc |-> "dispatch", INTF |-> f.val, i |-> 0,
                      cap |-> DevWord(reg, INTCAPA), used |-> << >>,
                      calls |-> IF isr.calls < MaxCalls THEN isr.calls + 1 ELSE MaxCalls]
    /\ lastOp' = Op("onInterrupt:flags", -1)
    /\ result' = -1
    /\ UNCHANGED <<config, pins, s_callback, device, fg, transitions>>

\* onInterrupt(), the next if-block whose flag is set: Pin<idx>::notify(),
\* for a SWITCH or ROTENC_PHASE_A pin up to the end of readINTCAP()
Isr_notify ==
    /\ isr.pc = "dispatch"
    /\ NextFlagged(isr.INTF, isr.i) < NumPins
    /\ LET j == NextFlagged(isr.INTF, isr.i)
           s == [StNow EXCEPT !.trace = Append(@, NotifyCall(j))]
       IN  IF PinTypeOf(j) \in CallbackTypes
           THEN LET c == readINTCAP(s, j)
                IN  /\ Returned(c.st)
                    /\ isr' = [isr EXCEPT !.pc = IF c.val THEN "callback" ELSE "dispatch",
                                          !.i = IF c.val THEN j ELSE j + 1,
                                          !.used = Append(@, [pin |-> j, val |-> c.val])]
           ELSE /\ Returned(s)
                /\ isr' = [isr EXCEPT !.i = j + 1]
    /\ lastOp' = Op("onInterrupt:notify", NextFlagged(isr.INTF, isr.i))
    /\ result' = -1
    /\ UNCHANGED <<config, pins, s_callback, device, fg, transitions>>

\* notify() of a SWITCH or ROTENC_PHASE_A pin, after the capture bit was
\* found set: s_callback()
Isr_callback ==
    /\ isr.pc = "callback"
    /\ LET s == [StNow EXCEPT !.trace = Append(@, CallbackCall(isr.i))]
           b == CallbackBody(s, isr.i)
           reads == Len(b.st.trace) > Len(s.trace)
       IN  /\ Returned(RunCallback(StNow, isr.i))
           /\ isr' = [isr EXCEPT
                        !.pc = "dispatch",
                        !.i = @ + 1,
                        !.used = IF reads
                                 THEN Append(@, [pin |-> CHOOSE p \in PhaseBPins :
                                                            \A q \in PhaseBPins : p <= q,
                                                 val |-> b.val])
                                 ELSE @]
    /\ lastOp' = Op("onInterrupt:callback", isr.i)
    /\ result' = -1
    /\ UNCHANGED <<config, pins, s_callback, device, fg, transitions>>

\* onInterrupt(): no flagged if-block is left, the function returns
Isr_return ==
    /\ isr.pc = "dispatch"
    /\ NextFlagged(isr.INTF, isr.i) = NumPins
    /\ isr' = [isr EXCEPT !.pc = "idle", !.i = NumPins]
    /\ lastOp' = Op("onInterrupt:return", -1)
    /\ result' = -1
    /\ UNCHANGED <<config, reg, pins, s_callback, trace, SSPin, bus, device, fg, transitions>>

-----------------------------------------------------------------------------
(* SpecIsr: the firmware registers callbacks and calls init(); from then on *)
(* the board changes pin levels at most MaxTransitions times and the        *)
(* collaborator calls onInterrupt(), not re-entrantly, when the interrupt   *)
(* line is asserted.                                                        *)

IsrConfigs ==
    { << MCP23S17PinConfig(B0, "SWITCH"), MCP23S17PinConfig(1, "SWITCH") >>,
      << MCP23S17PinConfig(1, "ROTENC_PHASE_A"), MCP23S17PinConfig(2, "ROTENC_PHASE_B") >>,
      << MCP23S17PinConfig(B7, "SWITCH"), MCP23S17PinConfig(A0, "ROTENC_PHASE_A"),
         MCP23S17PinConfig(9, "ROTENC_PHASE_B") >> }

InitIsr ==
    /\ config \in IsrConfigs
    /\ reg = PowerOnReset
    /\ pins = 65535
    /\ s_callback = [i \in PinIdx |-> "unset"]
    /\ lastOp = Op("none", -1)
    /\ trace = << >>
    /\ result = -1
    /\ SSPin = TRUE
    /\ bus = << >>
    /\ device = "MCP23S17"
    /\ isr = IsrIdle
    /\ fg = FgIdle
    /\ transitions = 0

IsrNext == Isr_notify \/ Isr_callback \/ Isr_return

NextIsr ==
    \/ \E i \in PinIdx, cb \in IsrCallbacks :
          Setup /\ s_callback[i] = "unset" /\ Call_registerCallback(i, cb)
    \/ \E b \in BOOLEAN : Setup /\ Call_init(b)
    \/ \E S \in SUBSET Wired : ~Setup /\ PinTransition(S)
    \/ Isr_readFlags
    \/ Isr_notify
    \/ Isr_callback
    \/ Isr_return

SpecIsr == InitIsr /\ [][NextIsr]_vars

-----------------------------------------------------------------------------
(* SpecLive: as SpecIsr, for one board with a switch on port B and an       *)
(* encoder phase on port A and at most MaxLiveTransitions changes of pin    *)
(* levels, with the scheduling the driver is written for: the collaborator  *)
(* calls onInterrupt() whenever the interrupt line is asserted, it does not *)
(* ignore an asserted line for ever, and onInterrupt() is synchronous code, *)
(* a call that was begun goes on until it returns.                          *)

MaxLiveTransitions == 2

LiveConfig ==
    << MCP23S17PinConfig(B7, "SWITCH"), MCP23S17PinConfig(A0, "ROTENC_PHASE_A") >>

InitLive ==
    /\ config = LiveConfig
    /\ reg = PowerOnReset
    /\ pins = 65535
    /\ s_callback = [i \in PinIdx |-> "unset"]
    /\ lastOp = Op("none", -1)
    /\ trace = << >>
    /\ result = -1
    /\ SSPin = TRUE
    /\ bus = << >>
    /\ device = "MCP23S17"
    /\ isr = IsrIdle
    /\ fg = FgIdle
    /\ transitions = 0

NextLive ==
    \/ \E i \in PinIdx, cb \in IsrCallbacks :
          Setup /\ s_callback[i] = "unset" /\ Call_registerCallback(i, cb)
    \/ \E b \in BOOLEAN : Setup /\ Call_init(b)
    \/ \E S \in SUBSET Wired :
          ~Setup /\ transitions < MaxLiveTransitions /\ PinTransition(S)
    \/ Isr_readFlags
    \/ Isr_notify
    \/ Isr_callback
    \/ Isr_return

SpecLive ==
    /\ InitLive
    /\ [][NextLive]_vars
    /\ WF_vars(Isr_readFlags)
    /\ WF_vars(IsrNext)

-----------------------------------------------------------------------------
(* SpecPreempt: a foreground call of read(), readB() or reArmInterrupt()    *)
(* runs one bus operation at a time, and the interrupt     *)
(* that calls onInterrupt() is not masked: onInterrupt() runs, from its     *)
(* first statement to its return, between any two bus operations of the     *)
(* foreground call.                                                         *)

\* the bus operations of readRegister(addr) and of readRegisterPair(addr)
BusProgram(op) ==
    LET low == BusEvent("SS_low", -1)
        high == BusEvent("SS_high", -1)
        get == BusEvent("get", -1)
        rd == BusEvent("put", OPCODE_READ)
    IN  CASE op = "readAB" -> << low, rd, BusEvent("put", GPIOA), get, get, high >>
          [] op = "readB" -> << low, rd, BusEvent("put", GPIOB), get, high >>
          [] op = "reArmInterrupt" -> << low, rd, BusEvent("put", INTCAPA), get, get, high >>

ForegroundOps == {"readAB", "readB", "reArmInterrupt"}

\* one bus operation
BusStep(st, e) ==
    CASE e.ev = "SS_low" -> SSPin_low(st)
      [] e.ev = "put" -> SPIMaster_put(st, e.byte)
      [] e.ev = "get" -> SPIMaster_get(st).st
      [] e.ev = "SS_high" -> SSPin_high(st)

\* the foreground call starts: SSPin::low()
Fg_begin(op) ==
    /\ fg.op = "none"
    /\ LET s == BusStep(St0, BusProgram(op)[1])
       IN  /\ Returned(s)
           /\ fg' = [op |-> op, k |-> 1, sel |-> s.sel]
    /\ lastOp' = Op("foreground", -1)
    /\ result' = -1
    /\ UNCHANGED <<config, pins, s_callback, device, isr, transitions>>

\* the foreground call goes on with its next bus operation; after the last
\* one it has returned
Fg_step ==
    /\ fg.op # "none"
    /\ LET s == BusStep(StNow, BusProgram(fg.op)[fg.k + 1])
       IN  /\ Returned(s)
           /\ fg' = IF fg.k + 1 = Len(BusProgram(fg.op)) THEN FgIdle
                    ELSE [fg EXCEPT !.k = @ + 1, !.sel = s.sel]
    /\ lastOp' = Op("foreground", -1)
    /\ result' = -1
    /\ UNCHANGED <<config, pins, s_callback, device, isr, transitions>>

\* an onInterrupt() that leaves the bus alone while chip-select is asserted
Preempt_onInterrupt_busFree ==
    /\ IntAsserted(reg)
    /\ LET s == IF SSPin THEN onInterrupt(StNow) ELSE StNow
       IN  /\ Returned(s)
           /\ fg' = [fg EXCEPT !.sel = s.sel]
    /\ lastOp' = Op("interrupt", -1)
    /\ result' = -1
    /\ UNCHANGED <<config, pins, s_callback, device, isr, transitions>>

\* the interrupt line is asserted and the interrupt is taken: onInterrupt()
\* runs whatever the foreground is doing
Preempt_onInterrupt ==
    /\ IntAsserted(reg)
    /\ LET s == onInterrupt(StNow)
       IN  /\ Returned(s)
           /\ fg' = [fg EXCEPT !.sel = s.sel]
    /\ lastOp' = Op("interrupt", -1)
    /\ result' = -1
    /\ UNCHANGED <<config, pins, s_callback, device, isr, transitions>>

\* how many times the board changes pin levels while the foreground runs
MaxEvents == 2

PreemptConfigs ==
    { << MCP23S17PinConfig(B0, "SWITCH") >>,
      << MCP23S17PinConfig(A7, "ROTENC_PHASE_A"), MCP23S17PinConfig(14, "ROTENC_PHASE_B") >> }

InitPreempt ==
    /\ config \in PreemptConfigs
    /\ reg = PowerOnReset
    /\ pins = 65535
    /\ s_callback = [i \in PinIdx |-> "unset"]
    /\ lastOp = Op("none", -1)
    /\ trace = << >>
    /\ result = -1
    /\ SSPin = TRUE
    /\ bus = << >>
    /\ device = "MCP23S17"
    /\ isr = IsrIdle
    /\ fg = FgIdle
    /\ transitions = 0

NextPreempt ==
    \/ \E i \in PinIdx, cb \in IsrCallbacks :
          Setup /\ s_callback[i] = "unset" /\ Call_registerCallback(i, cb)
    \/ \E b \in BOOLEAN : Setup /\ Call_init(b)
    \/ \E S \in SUBSET Wired : ~Setup /\ transitions < MaxEvents /\ PinTransition(S)
    \/ \E op \in ForegroundOps : ~Setup /\ Fg_begin(op)
    \/ Fg_step
    \/ ~Setup /\ Preempt_onInterrupt

SpecPreempt == InitPreempt /\ [][NextPreempt]_vars

-----------------------------------------------------------------------------
(* What a call did, read from its log                                      *)

\* the events of the log with a given op
Events(op) == SelectSeq(trace, LAMBDA e : e.op = op)

\* the pins notify() was called for, in the order of the calls
NotifiedPins == [k \in 1 .. Len(Events("notify")) |-> Events("notify")[k].pin]

\* the callback calls made for pin i
CallsOf(i) == SelectSeq(Events("s_callback"), LAMBDA e : e.pin = i)

\* the transactions of the log that read a capture register
IsCaptureRead(e) ==
    /\ e.op \in {"readRegister", "readRegisterPair"}
    /\ e.addr \in {INTCAPA, INTCAPB}

CaptureReads == SelectSeq(trace, IsCaptureRead)

\* the elements of a set of numbers in ascending order
RECURSIVE Ascending(_)
Ascending(S) ==
    IF S = {} THEN << >>
    ELSE LET m == CHOOSE x \in S : \A y \in S : x <= y
         IN  << m >> \o Ascending(S \ {m})

\* the flag word the last onInterrupt() read: its first transaction
FlagsRead == trace[1].value

\* the capture register pair of the device
CaptureWord == DevWord(reg, INTCAPA)

-----------------------------------------------------------------------------
(* C1: onInterrupt() starts by reading the interrupt-flag register pair, and *)
(* in that same call notify() is called exactly once for every set bit of    *)
(* the word read and for no clear bit, in the order B0..B7, A0..A7 (a word   *)
(* with k set bits gives k calls).                                           *)
C1_DispatchOncePerFlagInOrder ==
    lastOp.name = "onInterrupt" =>
        /\ Len(trace) >= 1
        /\ trace[1].op = "readRegisterPair"
        /\ trace[1].addr = INTFA
        /\ NotifiedPins = Ascending(BitsOf(FlagsRead))
        /\ Len(NotifiedPins) = Cardinality(BitsOf(FlagsRead))

\* three pins flagged at once, on both ports, one of them without a callback
C1_Witness ==
    /\ lastOp.name = "onInterrupt"
    /\ Len(NotifiedPins) = 3
    /\ NotifiedPins[1] < A0
    /\ NotifiedPins[3] >= A0
    /\ \E k \in 1 .. 3 : PinTypeOf(NotifiedPins[k]) \notin CallbackTypes

(* C2: in onInterrupt(), the notify() of a flagged pin calls the pin's own   *)
(* stored callback exactly once if the pin is a SWITCH or ROTENC_PHASE_A pin  *)
(* and its bit of the capture register pair is 1; it calls nothing if the bit *)
(* is 0 or the pin has any other type; no callback of a pin that is not       *)
(* flagged is called.                                                         *)
C2_CallbackIffTypeAndCapture ==
    lastOp.name = "onInterrupt" =>
        \A i \in PinIdx :
            LET flagged == Bit(FlagsRead, i)
                fires == /\ flagged
                         /\ PinTypeOf(i) \in {"SWITCH", "ROTENC_PHASE_A"}
                         /\ Bit(CaptureWord, i)
            IN  /\ Len(CallsOf(i)) = (IF fires THEN 1 ELSE 0)
                /\ \A k \in 1 .. Len(CallsOf(i)) : CallsOf(i)[k].fn = s_callback[i]

\* one call with a firing switch, a flagged encoder phase A whose capture bit is 0
\* and a flagged phase B pin whose capture bit is 1
C2_Witness ==
    /\ lastOp.name = "onInterrupt"
    /\ \E i, j, k \in PinIdx :
          /\ Bit(FlagsRead, i) /\ PinTypeOf(i) = "SWITCH" /\ Bit(CaptureWord, i)
          /\ Len(CallsOf(i)) = 1 /\ s_callback[i] = "f"
          /\ Bit(FlagsRead, j) /\ PinTypeOf(j) = "ROTENC_PHASE_A" /\ ~Bit(CaptureWord, j)
          /\ Len(CallsOf(j)) = 0
          /\ Bit(FlagsRead, k) /\ PinTypeOf(k) = "ROTENC_PHASE_B" /\ Bit(CaptureWord, k)
          /\ Len(CallsOf(k)) = 0

-----------------------------------------------------------------------------
(* C3: after onInterrupt() has returned, and before any pin changes again, a *)
(* read of the interrupt-flag register pair returns zero: the capture reads  *)
(* of the call have cleared every pending interrupt condition.               *)
C3_FlagsZeroAfterOnInterrupt ==
    lastOp.name = "onInterrupt" => readRegisterPair(St0, INTFA).val = 0

\* the call found flags of both ports set and left none
C3_Witness ==
    /\ lastOp.name = "onInterrupt"
    /\ Hi(FlagsRead) # 0
    /\ Lo(FlagsRead) # 0
    /\ readRegisterPair(St0, INTFA).val = 0

\* the flagged pins of the last onInterrupt() whose notify() reads the capture bit
FlaggedCallbackPins ==
    {i \in BitsOf(FlagsRead) : PinTypeOf(i) \in {"SWITCH", "ROTENC_PHASE_A"}}

(* C4 as claimed: one onInterrupt() call reads the capture register at most  *)
(* once.                                                                     *)
C4_AtMostOneCaptureRead ==
    lastOp.name = "onInterrupt" => Len(CaptureReads) <= 1

(* What the code does where C4 fails: one onInterrupt() call reads the       *)
(* capture register once for every flagged SWITCH / ROTENC_PHASE_A pin, in    *)
(* dispatch order: a single-                                                  *)
(* register read of INTCAPA for a port A pin and of INTCAPB for a port B pin, *)
(* issued by that pin's notify().                                             *)
C4_OneCaptureReadPerCallbackPin ==
    lastOp.name = "onInterrupt" =>
        LET order == Ascending(FlaggedCallbackPins)
        IN  /\ Len(CaptureReads) = Len(order)
            /\ \A k \in 1 .. Len(order) :
                  /\ CaptureReads[k].op = "readRegister"
                  /\ CaptureReads[k].addr = (IF order[k] >= A0 THEN INTCAPA ELSE INTCAPB)

\* a call that dispatched two flagged pins and read the capture register twice
C4_Witness ==
    /\ lastOp.name = "onInterrupt"
    /\ Cardinality(FlaggedCallbackPins) = 2
    /\ Len(CaptureReads) = 2

(* C5 as claimed: every onInterrupt() call reads the capture register at     *)
(* least once.                                                               *)
C5_AlwaysCaptureRead ==
    lastOp.name = "onInterrupt" => Len(CaptureReads) >= 1

(* What the code does where C5 fails: an onInterrupt() call reads the        *)
(* capture register if and only                                               *)
(* if a SWITCH or ROTENC_PHASE_A pin is flagged; with a flag word of zero, or *)
(* with flags of other pins only, it returns after the flag read alone.       *)
C5_CaptureReadIffCallbackPinFlagged ==
    lastOp.name = "onInterrupt" =>
        /\ (Len(CaptureReads) >= 1) <=> (FlaggedCallbackPins # {})
        /\ (FlaggedCallbackPins = {}) => Len(trace) = 1 + Len(NotifiedPins)

\* a call with flags set, none of a pin with a callback, and no capture read
C5_Witness ==
    /\ lastOp.name = "onInterrupt"
    /\ FlagsRead # 0
    /\ FlaggedCallbackPins = {}
    /\ Len(CaptureReads) = 0

\* a step in which the port of pin i latches a new interrupt event
LatchesOn(i) ==
    IF t_portA(i) THEN reg[INTFA] = 0 /\ reg'[INTFA] # 0
    ELSE reg[INTFB] = 0 /\ reg'[INTFB] # 0

-----------------------------------------------------------------------------
(* What init() wrote, and what the pack declares                           *)

\* the six register pairs init() writes an image to
ImageRegs == {IODIRA, IPOLA, GPINTENA, DEFVALA, INTCONA, GPPUA}

\* the writeRegisterPair transactions of the last call to the pair at addr
WritesTo(addr) == SelectSeq(trace, LAMBDA e : e.op = "writeRegisterPair" /\ e.addr = addr)

\* the image the last init() wrote to the pair at addr
Written(addr) == WritesTo(addr)[1].value

\* the entries of the pack for index i
EntriesFor(i) == {k \in 1 .. Len(config) : config[k].idx = i}

\* the type the pack declares for index i: that of its first entry for i,
\* UNUSED without one
DeclaredType(i) ==
    IF EntriesFor(i) = {} THEN "UNUSED"
    ELSE config[CHOOSE k \in EntriesFor(i) : \A l \in EntriesFor(i) : k <= l].type

\* at most one entry per index
NoDuplicates == \A i \in PinIdx : Cardinality(EntriesFor(i)) <= 1

(* C7: for a pack with at most one entry per index, init() writes each of    *)
(* the six register pairs once, and bit i of the word written is the bit the  *)
(* declared type of pin i asks for, for i in 0..15; the device holds the      *)
(* words afterwards; the pack {B0: SWITCH} gives IODIR = IPOL = GPINTEN =     *)
(* GPPU = 0x0001 and DEFVAL = INTCON = 0x0000.                                *)
C7_ImagesFollowTable ==
    (lastOp.name = "init" /\ NoDuplicates) =>
        /\ \A addr \in ImageRegs :
              /\ Len(WritesTo(addr)) = 1
              /\ \A i \in PinIdx : Bit(Written(addr), i) = PinBit(addr, DeclaredType(i))
              /\ DevWord(reg, addr) = Written(addr)
        /\ config = << MCP23S17PinConfig(B0, "SWITCH") >> =>
              /\ Written(IODIRA) = 1 /\ Written(IPOLA) = 1
              /\ Written(GPINTENA) = 1 /\ Written(GPPUA) = 1
              /\ Written(DEFVALA) = 0 /\ Written(INTCONA) = 0

\* init() has run for a pack with a switch on A7 and an input on B0
C7_Witness ==
    /\ lastOp.name = "init"
    /\ NoDuplicates
    /\ DeclaredType(A7) = "SWITCH"
    /\ DeclaredType(B0) = "INPUT"
    /\ Written(IODIRA) = 32769
    /\ Written(GPINTENA) = 32768

C9_SwitchAndPhaseABits ==
    lastOp.name = "init" =>
        \A i \in PinIdx :
            DeclaredType(i) \in {"SWITCH", "ROTENC_PHASE_A"} =>
                /\ Bit(Written(IODIRA), i) /\ Bit(Written(IPOLA), i)
                /\ Bit(Written(GPINTENA), i) /\ Bit(Written(GPPUA), i)
                /\ ~Bit(Written(DEFVALA), i) /\ ~Bit(Written(INTCONA), i)

\* init() has run for a pack with a switch on port A and a phase A on port B
C9_Witness ==
    /\ lastOp.name = "init"
    /\ \E i, j \in PinIdx :
          /\ i >= A0 /\ DeclaredType(i) = "SWITCH"
          /\ j < A0 /\ DeclaredType(j) = "ROTENC_PHASE_A"
          /\ Bit(Written(GPINTENA), i) /\ Bit(Written(GPINTENA), j)

(* C10: for every pin whose declared type is ROTENC_PHASE_B the images       *)
(* init() writes have the pin's IODIR, IPOL and GPPU bits set and its        *)
(* GPINTEN bit clear; and a level change of ROTENC_PHASE_B pins alone leaves *)
(* the interrupt-flag register pair as it was, so it raises no interrupt.    *)
C10_PhaseBNeverInterrupts ==
    /\ [](lastOp.name = "init" =>
            \A i \in PinIdx :
                DeclaredType(i) = "ROTENC_PHASE_B" =>
                    /\ Bit(Written(IODIRA), i) /\ Bit(Written(IPOLA), i)
                    /\ Bit(Written(GPPUA), i) /\ ~Bit(Written(GPINTENA), i))
    /\ [][(/\ lastOp'.name = "pinChange"
           /\ \A i \in BitsOf(Xor(pins, pins')) : DeclaredType(i) = "ROTENC_PHASE_B")
          => DevWord(reg', INTFA) = DevWord(reg, INTFA)]_vars

\* on an initialised device with interrupts enabled, a phase B pin alone has
\* gone low and no flag is set
C10_Witness ==
    /\ lastOp.name = "pinChange"
    /\ DevWord(reg, GPINTENA) # 0
    /\ DevWord(reg, INTFA) = 0
    /\ \E b \in PinIdx :
          /\ DeclaredType(b) = "ROTENC_PHASE_B"
          /\ pins = 65535 - BV(b)

-----------------------------------------------------------------------------
(* The UNUSED pin, duplicate entries, the transactions of init()            *)

\* the pins that resolve to UNUSED
UnusedPins == {i \in PinIdx : PinTypeOf(i) = "UNUSED"}

(* C11 as claimed: an UNUSED pin has all six table bits false and, after    *)
(* init(), the device has the pin as an input without pull-up and without   *)
(* interrupt.                                                               *)
C11_UnusedLeftInput ==
    lastOp.name = "init" =>
        \A i \in UnusedPins :
            /\ \A addr \in ImageRegs : ~PinBit(addr, "UNUSED")
            /\ DevIsInput(reg, i)
            /\ ~Bit(DevWord(reg, GPPUA), i)
            /\ ~Bit(DevWord(reg, GPINTENA), i)

(* C11, amended: an UNUSED pin has all six table bits false and, after      *)
(* init(), the device has the pin's IODIR, IPOL, GPINTEN, DEFVAL, INTCON    *)
(* and GPPU bits clear: the pin is an output, as an OUTPUT pin is, which    *)
(* shows its output latch whatever the level of the line, with no pull-up   *)
(* and no interrupt.                                                        *)
C11_UnusedIsOutput ==
    lastOp.name = "init" =>
        \A i \in UnusedPins :
            /\ \A addr \in ImageRegs : ~PinBit(addr, "UNUSED")
            /\ \A addr \in ImageRegs : ~Bit(DevWord(reg, addr), i)
            /\ ~DevIsInput(reg, i)
            /\ DevIsInput(reg, i) = s_IODIRBit("OUTPUT")
            /\ Bit(GpioWord(reg, pins), i) = Bit(DevWord(reg, OLATA), i)

\* init() has run on a device fresh from reset, where every pin was an input:
\* a pin declared UNUSED and a pin without an entry are outputs now
C11_Witness ==
    /\ lastOp.name = "init"
    /\ \E i, j \in UnusedPins :
          /\ EntriesFor(i) # {} /\ EntriesFor(j) = {}
          /\ ~DevIsInput(reg, i) /\ ~DevIsInput(reg, j)
          /\ DevIsInput(PowerOnReset, i) /\ DevIsInput(PowerOnReset, j)

(* C12: a pack with two entries for one pin index is rejected before any    *)
(* register transaction: init() issues no transaction for such a pack.      *)
C12_DuplicatesRejected ==
    (lastOp.name = "init" /\ ~NoDuplicates) => (trace = << >> /\ bus = << >>)

\* the register transactions of the last call
IsTransaction(e) ==
    e.op \in {"writeRegister", "readRegister", "writeRegisterPair", "readRegisterPair"}

Transactions == SelectSeq(trace, IsTransaction)

(* C13: init() issues exactly eight register transactions, each once: the   *)
(* single-register write of IOCON, the register-pair writes of IODIR, IPOL,  *)
(* GPINTEN, DEFVAL, INTCON, GPPU in this order, and last the register-pair   *)
(* read of INTCAP; the bus shows eight chip-select frames.                   *)
C13_InitTransactions ==
    lastOp.name = "init" =>
        /\ trace = Transactions
        /\ [k \in 1 .. Len(trace) |-> <<trace[k].op, trace[k].addr>>] =
              << <<"writeRegister", IOCON>>,
                 <<"writeRegisterPair", IODIRA>>, <<"writeRegisterPair", IPOLA>>,
                 <<"writeRegisterPair", GPINTENA>>, <<"writeRegisterPair", DEFVALA>>,
                 <<"writeRegisterPair", INTCONA>>, <<"writeRegisterPair", GPPUA>>,
                 <<"readRegisterPair", INTCAPA>> >>
        /\ Cardinality({k \in 1 .. Len(bus) : bus[k].ev = "SS_low"}) = 8

\* init() has run for a pack with a switch: eight transactions, the last one
\* the read of the capture pair
C13_Witness ==
    /\ lastOp.name = "init"
    /\ Len(trace) = 8
    /\ trace[8].op = "readRegisterPair"
    /\ trace[4].value # 0

(* C14: the control word init(intActiveHigh) writes to IOCON has SEQOP and  *)
(* MIRROR set, INTPOL set iff intActiveHigh, and ODR, HAEN, DISSLW, BANK     *)
(* clear: 0x62 for active high, 0x60 for active low; it is the data byte of  *)
(* the first frame and the value of IOCON afterwards.                        *)
C14_ControlWord ==
    [][\A b \in BOOLEAN :
          Call_init(b) =>
              LET v == trace'[1].value
              IN  /\ trace'[1].op = "writeRegister" /\ trace'[1].addr = IOCON
                  /\ v = (IF b THEN 98 ELSE 96)
                  /\ Bit(v, SEQOP) /\ Bit(v, MIRROR)
                  /\ Bit(v, INTPOL) = b
                  /\ ~Bit(v, ODR) /\ ~Bit(v, HAEN) /\ ~Bit(v, DISSLW) /\ ~Bit(v, BANK)
                  /\ bus'[4] = BusEvent("put", v)
                  /\ reg'[IOCON] = v]_vars

\* init(true) has run: IOCON holds 0x62
C14_Witness ==
    /\ lastOp.name = "init"
    /\ trace[1].value = 98
    /\ reg[IOCON] = 98

-----------------------------------------------------------------------------
(* The bus log of a call, cut into chip-select frames                       *)

\* how many more SSPin::low() than SSPin::high() the first k bus events hold
Depth(k) ==
    Cardinality({j \in 1 .. k : bus[j].ev = "SS_low"})
        - Cardinality({j \in 1 .. k : bus[j].ev = "SS_high"})

\* where the frames start: the SSPin::low() events
FrameStarts == Ascending({k \in 1 .. Len(bus) : bus[k].ev = "SS_low"})

NumFrames == Len(FrameStarts)

\* the j-th frame: from its SSPin::low() to the next SSPin::high()
Frame(j) ==
    LET a == FrameStarts[j]
        ends == {k \in a .. Len(bus) : bus[k].ev = "SS_high"}
        b == IF ends = {} THEN Len(bus) ELSE CHOOSE k \in ends : \A l \in ends : k <= l
    IN  SubSeq(bus, a, b)

\* the events of a frame by kind, and its bytes
Kinds(f) == [k \in 1 .. Len(f) |-> f[k].ev]
Bytes(f) == [k \in 1 .. Len(f) |-> f[k].byte]

\* the address byte of every frame
AddrBytes == [j \in 1 .. NumFrames |-> Frame(j)[3].byte]

\* the opcode byte of every frame
OpcodeBytes == [j \in 1 .. NumFrames |-> Frame(j)[2].byte]

RECURSIVE SumLen(_)
SumLen(j) == IF j = 0 THEN 0 ELSE Len(Frame(j)) + SumLen(j - 1)

\* the sequence a register transaction of each kind is claimed to be
FrameShape(op) ==
    CASE op = "writeRegister" -> <<"SS_low", "put", "put", "put", "SS_high">>
      [] op = "readRegister" -> <<"SS_low", "put", "put", "get", "SS_high">>
      [] op = "writeRegisterPair" -> <<"SS_low", "put", "put", "put", "put", "SS_high">>
      [] op = "readRegisterPair" -> <<"SS_low", "put", "put", "get", "get", "SS_high">>

(* C15: every register transaction is one frame on the bus: chip-select      *)
(* asserted, opcode byte, address byte, one data byte (single) or two (pair), *)
(* sent for a write and received for a read, chip-select deasserted; no byte  *)
(* is exchanged while chip-select is deasserted, the bus carries nothing but  *)
(* these frames, and chip-select is deasserted after every call.              *)
C15_TransactionFraming ==
    /\ SSPin = TRUE
    /\ \A k \in 1 .. Len(bus) : bus[k].ev \in {"put", "get"} => Depth(k) = 1
    /\ NumFrames = Len(Transactions)
    /\ SumLen(NumFrames) = Len(bus)
    /\ \A j \in 1 .. NumFrames : Kinds(Frame(j)) = FrameShape(Transactions[j].op)

\* an onInterrupt() that read the flag pair and the capture register of both
\* ports: a pair frame and two single frames
C15_Witness ==
    /\ lastOp.name = "onInterrupt"
    /\ NumFrames = 3
    /\ Len(bus) = 16
    /\ SSPin = TRUE

\* the data bytes of a transaction: the byte, or the high byte then the low byte
ValueBytes(e) ==
    IF e.op \in {"writeRegister", "readRegister"} THEN << e.value >>
    ELSE << Hi(e.value), Lo(e.value) >>

(* C16: with calls that run one at a time, at most one transaction is open   *)
(* at any point of the bus log: chip-select is never asserted twice without   *)
(* a deassert between, every frame is the frame of one transaction, the k-th  *)
(* frame of the call that of its k-th transaction, and the address and data   *)
(* bytes inside the frame are those of that transaction.                      *)
C16_OneTransactionOpen ==
    /\ \A k \in 0 .. Len(bus) : Depth(k) \in {0, 1}
    /\ NumFrames = Len(Transactions)
    /\ \A j \in 1 .. NumFrames :
          LET f == Frame(j)
          IN  /\ f[Len(f)].ev = "SS_high"
              /\ f[3].byte = Transactions[j].addr
              /\ SubSeq(Bytes(f), 4, Len(f) - 1) = ValueBytes(Transactions[j])

\* init() on a pack with a switch: eight frames one after the other, a byte of
\* the fourth on the bus while that frame is open
C16_Witness ==
    /\ lastOp.name = "init"
    /\ NumFrames = 8
    /\ Transactions[4].value # 0
    /\ Depth(FrameStarts[4] + 3) = 1
    /\ Depth(FrameStarts[5] - 1) = 0

(* C17: on a simulated register file, readRegisterPair(addr) after           *)
(* writeRegisterPair(addr, v) returns v, for every register pair; the high    *)
(* byte of v is the first data byte on the bus and goes to the register       *)
(* addressed, the low byte is the second and goes to its partner, and the     *)
(* read receives them in the same order.                                      *)
C17_PairRoundTrip ==
    [][(/\ lastOp.name = "writeRegisterPair"
        /\ lastOp'.name = "readRegisterPair"
        /\ lastOp'.addr = lastOp.addr)
       => /\ result' = lastOp.value
          /\ Bytes(bus)[4] = Hi(lastOp.value) /\ Bytes(bus)[5] = Lo(lastOp.value)
          /\ reg[lastOp.addr] = Hi(lastOp.value) /\ reg[lastOp.addr + 1] = Lo(lastOp.value)
          /\ bus'[4] = BusEvent("get", Hi(lastOp.value))
          /\ bus'[5] = BusEvent("get", Lo(lastOp.value))]_vars

\* 0xA501 read back from the interrupt-flag pair of the file, which starts
\* cleared
C17_Witness ==
    /\ lastOp.name = "readRegisterPair"
    /\ lastOp.addr = INTFA
    /\ result = 42241
    /\ reg[INTFA] = 165 /\ reg[INTFB] = 1

\* the address of the capture, GPIO and latch register of the port of pin i
PortAddr(i, addrA, addrB) == IF i >= 8 THEN addrA ELSE addrB

(* C18: every write frame starts with opcode 0x40, every read frame with     *)
(* 0x41; the address bytes are: init() 0x0A, 0x00, 0x02, 0x04, 0x06, 0x08,    *)
(* 0x0C, 0x10; reArmInterrupt() 0x10; onInterrupt() 0x0E for the flags and    *)
(* then, per flagged SWITCH / ROTENC_PHASE_A pin in dispatch order, 0x10      *)
(* (port A) or 0x11 (port B); a pin's capture read 0x10 / 0x11, its live      *)
(* read 0x12 / 0x13, its latch write (a read, then a write) 0x14 / 0x15;      *)
(* read() and readA() 0x12, readB() 0x13.                                     *)
C18_OpcodesAndAddresses ==
    /\ NumFrames = Len(Transactions)
    /\ \A j \in 1 .. NumFrames :
          OpcodeBytes[j] =
              (IF Transactions[j].op \in {"writeRegister", "writeRegisterPair"} THEN 64 ELSE 65)
    /\ lastOp.name = "init" => AddrBytes = <<10, 0, 2, 4, 6, 8, 12, 16>>
    /\ lastOp.name = "reArmInterrupt" => AddrBytes = <<16>>
    /\ lastOp.name = "onInterrupt" =>
          LET order == Ascending(FlaggedCallbackPins)
          IN  AddrBytes = <<14>> \o [k \in 1 .. Len(order) |-> PortAddr(order[k], 16, 17)]
    /\ lastOp.name = "readINTCAP" => AddrBytes = << PortAddr(lastOp.pin, 16, 17) >>
    /\ lastOp.name = "readGPIO" => AddrBytes = << PortAddr(lastOp.pin, 18, 19) >>
    /\ lastOp.name = "writeOLAT" =>
          /\ AddrBytes = << PortAddr(lastOp.pin, 20, 21), PortAddr(lastOp.pin, 20, 21) >>
          /\ OpcodeBytes = <<65, 64>>
    /\ lastOp.name \in {"readAB", "readA"} => AddrBytes = <<18>>
    /\ lastOp.name = "readB" => AddrBytes = <<19>>

\* an onInterrupt() that found flags of callback pins of both ports set in the
\* file: the flag read, then capture reads at 0x11 and 0x10
C18_Witness ==
    /\ lastOp.name = "onInterrupt"
    /\ OpcodeBytes = <<65, 65, 65, 65>>
    /\ AddrBytes = <<14, 17, 17, 16>>

-----------------------------------------------------------------------------
(* The handles of the OUTPUT and of the INPUT / INPUT_PU pins                *)

(* C19: the handle of an OUTPUT pin exposes write(bool), on port A and on    *)
(* port B alike, backed by the latch write of its register-level class.      *)
C19_OutputExposesWrite ==
    \A i \in PinIdx :
        PinTypeOf(i) = "OUTPUT" =>
            /\ "write" \in PinMembers(PinTypeOf(i))
            /\ "writeOLAT" \in PinRegisterAccessMembers(t_portA(i))

(* What the code has of C19: the register-level latch write, called on its   *)
(* own, reads the latch register of the pin's port, sets or clears the pin's  *)
(* bit and writes the result back: the pin's latch bit is the value written,  *)
(* the other 15 latch bits are unchanged.                                     *)
C19_LatchWriteFrameEffect ==
    [][\A i \in PinIdx, b \in BOOLEAN :
          Call_writeOLAT(i, b) =>
              /\ Bit(DevWord(reg', OLATA), i) = b
              /\ \A j \in PinIdx \ {i} : Bit(DevWord(reg', OLATA), j) = Bit(DevWord(reg, OLATA), j)
              /\ \A a \in SimRegs \ {OLATA, OLATB} : reg'[a] = reg[a]]_vars

(* C20: the handle of an INPUT or INPUT_PU pin exposes read().               *)
C20_InputExposesRead ==
    \A i \in PinIdx :
        PinTypeOf(i) \in {"INPUT", "INPUT_PU"} => "read" \in PinMembers(PinTypeOf(i))

(* What the code has of C20: the register-level live read, called on its     *)
(* own, returns the pin's bit of the GPIO register of the pin's port.         *)
C20_LiveReadOfRegisterLevel ==
    lastOp.name = "readGPIO" =>
        /\ result = (IF Bit(DevWord(reg, GPIOA), lastOp.pin) THEN 1 ELSE 0)
        /\ AddrBytes = << PortAddr(lastOp.pin, GPIOA, GPIOB) >>

-----------------------------------------------------------------------------
(* C21: registerCallback(callback) replaces the callback stored for its pin  *)
(* and for no other pin, whatever was stored before; no other call changes a *)
(* stored callback; a qualifying notify() of onInterrupt() calls the         *)
(* callback that is stored for its pin at that time, once, and no other.     *)
C21_RegisterCallbackReplaces ==
    /\ [][/\ \A i \in PinIdx, cb \in Callbacks :
                Call_registerCallback(i, cb) =>
                    /\ s_callback'[i] = cb
                    /\ \A j \in PinIdx \ {i} : s_callback'[j] = s_callback[j]
          /\ lastOp'.name # "registerCallback" => s_callback' = s_callback]_vars
    /\ [](lastOp.name = "onInterrupt" =>
            \A k \in 1 .. Len(Events("s_callback")) :
                LET e == Events("s_callback")[k]
                IN  /\ e.fn = s_callback[e.pin]
                    /\ Len(CallsOf(e.pin)) = 1)

\* one call that called g for one pin and f for another: both were registered,
\* g on a pin of its own
C21_Witness ==
    /\ lastOp.name = "onInterrupt"
    /\ \E i, j \in PinIdx :
          /\ CallsOf(i) = << [op |-> "s_callback", pin |-> i, fn |-> "g"] >>
          /\ CallsOf(j) = << [op |-> "s_callback", pin |-> j, fn |-> "f"] >>

-----------------------------------------------------------------------------
(* C22: notify() of a SWITCH or ROTENC_PHASE_A pin whose callback was never  *)
(* registered invokes nothing: no onInterrupt() makes the call s_callback()  *)
(* on a function object that is unset.                                       *)
C22_UnsetCallbackNotInvoked ==
    lastOp.name = "onInterrupt" =>
        \A k \in 1 .. Len(Events("s_callback")) : Events("s_callback")[k].fn # "unset"

\* a flagged pin with its capture bit set and no callback registered: the call
\* s_callback() was made
C22_Witness ==
    /\ lastOp.name = "onInterrupt"
    /\ \E i \in FlaggedCallbackPins :
          /\ s_callback[i] = "unset"
          /\ Len(CallsOf(i)) = 1

-----------------------------------------------------------------------------
\* the control word and the twelve registers of the six configuration pairs
ConfigRegs == {IOCON} \cup ImageRegs \cup {a + 1 : a \in ImageRegs}

\* init() has run: the control word is not the power-on reset value
Initialised == reg[IOCON] # 0

(* C23: only init() writes the control word or a configuration register: a   *)
(* step of any other call leaves the thirteen registers as they are and      *)
(* issues no write transaction at all, and once init() has run the six pairs *)
(* hold the images of the pack and the control word holds SEQOP, MIRROR and, *)
(* or not, INTPOL.                                                           *)
C23_ConfigurationOnlyWrittenByInit ==
    /\ [][lastOp'.name # "init" => \A a \in ConfigRegs : reg'[a] = reg[a]]_vars
    /\ [](lastOp.name # "init" =>
            \A k \in 1 .. Len(Transactions) :
                Transactions[k].op \in {"readRegister", "readRegisterPair"})
    /\ [](Initialised =>
            /\ reg[IOCON] \in {BV(SEQOP) + BV(MIRROR), BV(SEQOP) + BV(MIRROR) + BV(INTPOL)}
            /\ \A a \in ImageRegs : DevWord(reg, a) = Image(a))

\* after init(), pin changes and a dispatch that called a callback, the
\* interrupt enables are as init() wrote them
C23_Witness ==
    /\ lastOp.name = "onInterrupt"
    /\ Len(Events("s_callback")) >= 1
    /\ Initialised
    /\ DevWord(reg, GPINTENA) # 0
    /\ DevWord(reg, GPINTENA) = Image(GPINTENA)

-----------------------------------------------------------------------------
\* the states of the interrupt state machine
Triggered == isr.pc = "idle" /\ IntAsserted(reg)
Dispatching == isr.pc # "idle"
Idle == isr.pc = "idle" /\ ~IntAsserted(reg)

(* C24: with finitely many pin transitions and a collaborator that calls     *)
(* onInterrupt() whenever the interrupt line is asserted, an asserted line   *)
(* leads to a dispatch and a dispatch leads to the idle state with the line  *)
(* released; onInterrupt() is called at most once per pin transition.        *)
C24_InterruptLiveness ==
    /\ Triggered ~> Dispatching
    /\ Dispatching ~> Idle
    /\ [](isr.calls <= transitions)

\* the second onInterrupt() has returned and the line is released
C24_Witness ==
    /\ lastOp.name = "onInterrupt:return"
    /\ isr.calls = 2
    /\ Idle

-----------------------------------------------------------------------------
(* C25: every capture value that an onInterrupt() uses after its first       *)
(* capture read (in notify() of a later flagged pin, in a phase B read()     *)
(* made by the phase A callback) is the value the device had latched when    *)
(* the flags of that call were read, also when the device latches a new      *)
(* event during the call.                                                    *)
C25_CaptureCoherent ==
    \A k \in 2 .. Len(isr.used) :
        isr.used[k].val = Bit(isr.cap, isr.used[k].pin)

\* a phase B read() made by the phase A callback returned another level than
\* the one latched with the phase A edge that is being dispatched
C25_Witness ==
    /\ lastOp.name = "onInterrupt:callback"
    /\ PinTypeOf(lastOp.pin) = "ROTENC_PHASE_A"
    /\ Len(isr.used) = 2
    /\ PinTypeOf(isr.used[2].pin) = "ROTENC_PHASE_B"
    /\ isr.used[2].val # Bit(isr.cap, isr.used[2].pin)

-----------------------------------------------------------------------------
(* C26: when onInterrupt() runs between the chip-select assert and           *)
(* deassert of a foreground transaction, the bytes of its flag read go over  *)
(* the bus inside the foreground frame (chip-select is asserted a second     *)
(* time, without a deassert in between, then 0x41, 0x0E and two reads), and  *)
(* it leaves chip-select deasserted although the foreground transaction has  *)
(* bus operations left: the driver has no lock and masks no interrupt.       *)
C26_PreemptionBreaksForegroundFrame ==
    [][(Preempt_onInterrupt /\ fg.op # "none" /\ ~SSPin) =>
          LET n == Len(bus)
          IN  /\ Depth(n) = 1
              /\ Len(bus') >= n + 6
              /\ [k \in 1 .. 6 |-> bus'[n + k].ev] = FrameShape("readRegisterPair")
              /\ bus'[n + 2].byte = OPCODE_READ
              /\ bus'[n + 3].byte = INTFA
              /\ SSPin'
              /\ fg'.op = fg.op
              /\ fg'.k = fg.k
              /\ fg.k < Len(BusProgram(fg.op))]_vars

\* the foreground has asserted chip-select and has bytes left to exchange,
\* onInterrupt() has run: chip-select was asserted twice in a row and is now
\* deasserted
C26_Witness ==
    /\ lastOp.name = "interrupt"
    /\ fg.op # "none"
    /\ fg.k + 1 < Len(BusProgram(fg.op))
    /\ SSPin
    /\ \E p \in 2 .. Len(bus) : bus[p].ev = "SS_low" /\ Depth(p) = 2

-----------------------------------------------------------------------------
\* the mask the claim gives for pin index i
ClaimedMask(i) == IF i >= 8 THEN 2 ^ (i - 8) ELSE 2 ^ i

(* C27: the per-pin register functions address the port A register with mask *)
(* 1 << (i - 8) for i in 8..15 and the port B register with mask 1 << i for   *)
(* i in 0..7: the capture read and the live read return bit i of the word     *)
(* readRegisterPair returns for the pair, the latch write sets or clears bit  *)
(* i of that word and no other, and bit i of every image init() writes lands  *)
(* in the register and at the bit the per-pin functions use for pin i.        *)
C27_PerPinAgreesWithPairLayout ==
    /\ lastOp.name = "readINTCAP" =>
          /\ trace[1].addr = PortAddr(lastOp.pin, INTCAPA, INTCAPB)
          /\ result = (IF And(trace[1].value, ClaimedMask(lastOp.pin)) # 0 THEN 1 ELSE 0)
          /\ result = (IF Bit(readRegisterPair(St0, INTCAPA).val, lastOp.pin) THEN 1 ELSE 0)
    /\ lastOp.name = "readGPIO" =>
          /\ trace[1].addr = PortAddr(lastOp.pin, GPIOA, GPIOB)
          /\ result = (IF And(trace[1].value, ClaimedMask(lastOp.pin)) # 0 THEN 1 ELSE 0)
          /\ result = (IF Bit(readRegisterPair(St0, GPIOA).val, lastOp.pin) THEN 1 ELSE 0)
    /\ lastOp.name = "writeOLAT" =>
          /\ trace[1].addr = PortAddr(lastOp.pin, OLATA, OLATB)
          /\ trace[2].addr = trace[1].addr
          /\ trace[2].value = (IF lastOp.value = 1
                               THEN Or(trace[1].value, ClaimedMask(lastOp.pin))
                               ELSE AndNot(trace[1].value, ClaimedMask(lastOp.pin)))
          /\ Bit(readRegisterPair(St0, OLATA).val, lastOp.pin) = (lastOp.value = 1)
    /\ lastOp.name = "init" =>
          \A a \in ImageRegs, i \in PinIdx :
              (And(reg[PortAddr(i, a, a + 1)], ClaimedMask(i)) # 0) = PinBit(a, PinTypeOf(i))

\* a port A pin whose capture bit is set while the same bit of port B is clear
C27_Witness ==
    /\ lastOp.name = "readINTCAP"
    /\ lastOp.pin >= 8
    /\ result = 1
    /\ And(reg[INTCAPB], ClaimedMask(lastOp.pin)) = 0

-----------------------------------------------------------------------------
(* C28: for the empty pack every index resolves to UNUSED, and an init()     *)
(* that has run has written 0x0000 as each of the six images.                *)
C28_EmptyPackResolvesUnused ==
    config = << >> =>
        /\ \A i \in PinIdx : PinTypeOf(i) = "UNUSED"
        /\ lastOp.name = "init" => \A a \in ImageRegs : Written(a) = 0

\* the device class instantiated with the empty pack: init() cannot be
\* instantiated
C28_Witness ==
    /\ config = << >>
    /\ ~Instantiable(config)

-----------------------------------------------------------------------------
(* C29: onInterrupt() issues 1 + m transactions for m flagged SWITCH /       *)
(* ROTENC_PHASE_A pins, all reads: first, before any notify(), the register- *)
(* pair read of the flags, then for each such pin, right after its notify()  *)
(* call, one single-register read of the capture register of its port; the  *)
(* notify() of a flagged pin of another type is followed by no transaction;  *)
(* the bus carries no data byte sent to the device.                          *)
C29_DispatchReadsOnly ==
    lastOp.name = "onInterrupt" =>
        /\ trace[1] = Transaction("readRegisterPair", INTFA, FlagsRead)
        /\ Len(Transactions) = 1 + Cardinality(FlaggedCallbackPins)
        /\ NumFrames = Len(Transactions)
        /\ \A k \in 2 .. Len(Transactions) : Transactions[k].op = "readRegister"
        /\ \A j \in 1 .. NumFrames :
              Kinds(Frame(j)) \in {FrameShape("readRegister"), FrameShape("readRegisterPair")}
        /\ \A k \in 1 .. Len(trace) :
              trace[k].op = "notify" =>
                  IF PinTypeOf(trace[k].pin) \in CallbackTypes
                  THEN /\ k < Len(trace)
                       /\ trace[k + 1].op = "readRegister"
                       /\ trace[k + 1].addr = PortAddr(trace[k].pin, INTCAPA, INTCAPB)
                  ELSE k = Len(trace) \/ ~IsTransaction(trace[k + 1])

\* two flagged pins with a callback and one flagged pin of another type: three
\* transactions
C29_Witness ==
    /\ lastOp.name = "onInterrupt"
    /\ Cardinality(FlaggedCallbackPins) = 2
    /\ Cardinality(BitsOf(FlagsRead)) = 3
    /\ Len(Transactions) = 3

-----------------------------------------------------------------------------
(* C30: when notify() calls the callback its capture read is complete and    *)
(* chip-select is deasserted, no frame is open; what the callback puts on    *)
(* the bus (the phase B read()) is one complete frame of its own, and        *)
(* chip-select is deasserted again when the callback returns.                *)
C30_CallbackOutsideFrames ==
    [][Isr_callback =>
          /\ SSPin
          /\ Depth(Len(bus)) = 0
          /\ bus[Len(bus)].ev = "SS_high"
          /\ IsCaptureRead(trace[Len(trace)])
          /\ LET added == SubSeq(bus', Len(bus) + 1, Len(bus'))
             IN  \/ added = << >>
                 \/ Kinds(added) = FrameShape("readRegister")
          /\ SSPin']_vars

\* the phase A callback has read phase B: a third frame after the flag read
\* and the capture read
C30_Witness ==
    /\ lastOp.name = "onInterrupt:callback"
    /\ s_callback[lastOp.pin] = "readsPhaseB"
    /\ IsCaptureRead(trace[Len(trace)])
    /\ trace[Len(trace) - 1].op = "s_callback"
    /\ NumFrames = 3
    /\ SSPin

-----------------------------------------------------------------------------
(* C31: in the table of the pin classes a type that enables its interrupt   *)
(* is an input with inverted polarity and pull-up, and no type sets the      *)
(* default-value or the interrupt-control bit; so in the images init() writes *)
(* for any pack a set GPINTEN bit has the IODIR, IPOL and GPPU bits of its    *)
(* index set, and the DEFVAL and INTCON images are 0x0000, as are the two     *)
(* register pairs of the device afterwards.                                   *)
C31_InterruptBitsImplyInputBits ==
    /\ \A t \in MCP23xxxPinType :
          /\ s_GPINTENBit(t) => (s_IODIRBit(t) /\ s_IPOLBit(t) /\ s_GPPUBit(t))
          /\ ~s_DEFVALBit(t) /\ ~s_INTCONBit(t)
    /\ lastOp.name = "init" =>
          /\ \A i \in PinIdx :
                Bit(Written(GPINTENA), i) =>
                    /\ Bit(Written(IODIRA), i)
                    /\ Bit(Written(IPOLA), i)
                    /\ Bit(Written(GPPUA), i)
          /\ Written(DEFVALA) = 0 /\ Written(INTCONA) = 0
          /\ DevWord(reg, DEFVALA) = 0 /\ DevWord(reg, INTCONA) = 0

\* init() has run for a pack with a switch on A7 and a plain input on B0:
\* one interrupt-enable bit is set, and the input's direction bit beside it
C31_Witness ==
    /\ lastOp.name = "init"
    /\ DeclaredType(A7) = "SWITCH"
    /\ DeclaredType(B0) = "INPUT"
    /\ Written(GPINTENA) = 32768
    /\ Written(IODIRA) = 32769
    /\ Written(GPPUA) = 32768
    /\ Written(DEFVALA) = 0

-----------------------------------------------------------------------------
\* the pack without its k-th entry
Without(cfg, k) == SubSeq(cfg, 1, k - 1) \o SubSeq(cfg, k + 1, Len(cfg))

\* the image init() computes for the register pair at addr when the device
\* class is instantiated with the pack cfg
RECURSIVE ImageOfFrom(_, _, _)
ImageOfFrom(cfg, addr, i) ==
    IF i = NumPins THEN 0
    ELSE (IF PinBit(addr, PinIdxToPinType(i, cfg)) THEN BV(i) ELSE 0)
         + ImageOfFrom(cfg, addr, i + 1)

ImageOf(cfg, addr) == ImageOfFrom(cfg, addr, 0) % 65536

(* C32: of the six table bits INPUT sets only the direction bit, INPUT_PU    *)
(* only the direction and the pull-up bit, OUTPUT none; and for any pack     *)
(* init() has run with, the device class instantiated with the pack without  *)
(* any one of its OUTPUT entries computes the same six images.               *)
C32_OutputEntryRemovable ==
    /\ \A addr \in ImageRegs :
          /\ PinBit(addr, "INPUT") = (addr = IODIRA)
          /\ PinBit(addr, "INPUT_PU") = (addr \in {IODIRA, GPPUA})
          /\ ~PinBit(addr, "OUTPUT")
    /\ lastOp.name = "init" =>
          \A k \in 1 .. Len(config) :
              config[k].type = "OUTPUT" =>
                  /\ Instantiable(Without(config, k))
                  /\ \A addr \in ImageRegs : ImageOf(Without(config, k), addr) = Written(addr)

\* init() has run for a pack whose OUTPUT entry for B0 stands before a SWITCH
\* entry for B0: the images are 0, without the OUTPUT entry they are not
C32_Witness ==
    /\ lastOp.name = "init"
    /\ config = << MCP23S17PinConfig(B0, "OUTPUT"), MCP23S17PinConfig(B0, "SWITCH") >>
    /\ \A addr \in ImageRegs : Written(addr) = ImageOf(config, addr)
    /\ Written(GPINTENA) = 0
    /\ ImageOf(Without(config, 1), GPINTENA) = 1

-----------------------------------------------------------------------------
\* the entries of the pack that stand behind an entry for the same index
LaterEntries == {k \in 1 .. Len(config) : \E j \in 1 .. (k - 1) : config[j].idx = config[k].idx}

-----------------------------------------------------------------------------
(* C34: registerCallback() on a pin stores the callback for that pin and      *)
(* leaves the callback of every other pin as it was; it issues no register    *)
(* transaction, puts nothing on the bus, leaves chip-select and every         *)
(* register of the device as they were; and an onInterrupt(), calling         *)
(* callbacks as it dispatches, leaves every stored callback as it was.        *)
C34_RegisterCallbackFrame ==
    [][/\ \A i \in PinIdx, cb \in Callbacks :
            Call_registerCallback(i, cb) =>
                /\ s_callback' = [s_callback EXCEPT ![i] = cb]
                /\ reg' = reg /\ pins' = pins /\ SSPin' = SSPin
                /\ trace' = << >> /\ bus' = << >>
       /\ Call_onInterrupt => s_callback' = s_callback]_vars

\* a callback was registered on an initialised device for one pin while
\* another pin keeps a different one
C34_Witness ==
    /\ lastOp.name = "registerCallback"
    /\ Initialised
    /\ s_callback[lastOp.pin] = "f"
    /\ \E j \in PinIdx \ {lastOp.pin} : s_callback[j] = "g"
    /\ trace = << >> /\ bus = << >>

-----------------------------------------------------------------------------
(* 25LC512.h: the driver of the serial EEPROM, on a bus of its own.  The    *)
(* functions use the same two collaborators as the port expander, SSPin and  *)
(* SPIMaster; put() sends one byte, so an Address argument is cut to its low *)
(* byte.  No port expander is on this bus: the register file is empty.       *)

INSTRUCTION_READ == 3
INSTRUCTION_WRITE == 2
INSTRUCTION_WREN == 6

\* _25LC512::init(): the write-enable instruction in a frame of its own
_25LC512_init(st) == SSPin_high(SPIMaster_put(SSPin_low(st), INSTRUCTION_WREN))

\* _25LC512::write(address, data): put(address), put(address >> 8), put(data)
_25LC512_write(st, address, data) ==
    LET s1 == SSPin_low(st)
        s2 == SPIMaster_put(s1, INSTRUCTION_WRITE)
        s3 == SPIMaster_put(s2, address)
        s4 == SPIMaster_put(s3, address \div 256)
        s5 == SPIMaster_put(s4, data)
    IN  SSPin_high(s5)

\* _25LC512::read(address): put(address), put(address >> 8), get()
_25LC512_read(st, address) ==
    LET s1 == SSPin_low(st)
        s2 == SPIMaster_put(s1, INSTRUCTION_READ)
        s3 == SPIMaster_put(s2, address)
        s4 == SPIMaster_put(s3, address \div 256)
        g == SPIMaster_get(s4)
    IN  [val |-> g.val, st |-> SSPin_high(g.st)]

Call_25LC512_init ==
    /\ Returned(_25LC512_init(St0))
    /\ lastOp' = Op("25LC512::init", -1)
    /\ result' = -1
    /\ UNCHANGED <<config, pins, s_callback, device, isr, fg, transitions>>

Call_25LC512_write(address, data) ==
    /\ Returned(_25LC512_write(St0, address, data))
    /\ lastOp' = Op("25LC512::write", address)
    /\ result' = -1
    /\ UNCHANGED <<config, pins, s_callback, device, isr, fg, transitions>>

Call_25LC512_read(address) ==
    LET r == _25LC512_read(St0, address)
    IN  /\ Returned(r.st)
        /\ lastOp' = Op("25LC512::read", address)
        /\ result' = r.val
        /\ UNCHANGED <<config, pins, s_callback, device, isr, fg, transitions>>

-----------------------------------------------------------------------------
(* SpecEeprom: the EEPROM driver called with addresses from all over the    *)
(* address range                                                            *)

\* the addresses: both ends of the range, both ends of a page, addresses
\* whose two bytes are equal and addresses whose two bytes differ
EepromAddresses ==
    {0, 1, 127, 128, 255, 256, 257, 258, 4660, 13330, 32767, 32768, 43690, 65280, 65534, 65535}

\* the data bytes
EepromData == {0, 1, 2, 3, 90, 165, 255}

\* a bus without a port expander
NoRegisters == [a \in {} |-> 0]

InitEeprom ==
    /\ config = << >>
    /\ reg = NoRegisters
    /\ pins = 65535
    /\ s_callback = [i \in PinIdx |-> "unset"]
    /\ lastOp = Op("none", -1)
    /\ trace = << >>
    /\ result = -1
    /\ SSPin = TRUE
    /\ bus = << >>
    /\ device = "simulated"
    /\ isr = IsrIdle
    /\ fg = FgIdle
    /\ transitions = 0

NextEeprom ==
    \/ Call_25LC512_init
    \/ \E a \in EepromAddresses, d \in EepromData : Call_25LC512_write(a, d)
    \/ \E a \in EepromAddresses : Call_25LC512_read(a)

SpecEeprom == InitEeprom /\ [][NextEeprom]_vars

\* the events of the bus log, without the bytes
BusShape == [k \in 1 .. Len(bus) |-> bus[k].ev]

(* C35: write(address, data) and read(address) put on the bus, within one    *)
(* chip-select frame, the instruction byte, then the most significant byte   *)
(* of the address, then the least significant byte, and then send (write) or *)
(* receive (read) the data byte, for every address.                          *)
C35_AddressMsbFirst ==
    /\ lastOp.name = "25LC512::write" =>
          /\ BusShape = <<"SS_low", "put", "put", "put", "put", "SS_high">>
          /\ bus[2].byte = INSTRUCTION_WRITE
          /\ bus[3].byte = Hi(lastOp.pin)
          /\ bus[4].byte = Lo(lastOp.pin)
    /\ lastOp.name = "25LC512::read" =>
          /\ BusShape = <<"SS_low", "put", "put", "put", "get", "SS_high">>
          /\ bus[2].byte = INSTRUCTION_READ
          /\ bus[3].byte = Hi(lastOp.pin)
          /\ bus[4].byte = Lo(lastOp.pin)
          /\ bus[5].byte = result

\* write(0x1234, 0xA5) has run: the frame is 0x02, 0x34, 0x12, 0xA5, the
\* least significant byte of the address first
C35_Witness ==
    /\ lastOp = Op("25LC512::write", 4660)
    /\ SSPin
    /\ bus = << BusEvent("SS_low", -1), BusEvent("put", INSTRUCTION_WRITE),
                BusEvent("put", 52), BusEvent("put", 18), BusEvent("put", 165),
                BusEvent("SS_high", -1) >>

-----------------------------------------------------------------------------
(* shift_register.h, 74HC595.h: the drivers of a daisy chain of shift        *)
(* registers.  The chain length is a template argument; the class for n      *)
(* bytes sends one byte and hands the rest of the array to the class for     *)
(* n - 1 bytes, the class for one byte is a specialization of its own, the   *)
(* class for no byte is declared and never defined.  data is the array the   *)
(* pointer argument points to, from the pointer on.                          *)

\* a chain whose one-byte specialization sends nothing
RECURSIVE putNextByte_emptyLast(_, _, _)
putNextByte_emptyLast(st, data, n) ==
    IF n = 1 THEN st
    ELSE putNextByte_emptyLast(SPIMaster_put(st, Head(data)), Tail(data), n - 1)

\* ShiftRegister<SPIMaster, SSPin, n>::putNextByte(data): put(*data), then
\* Next::putNextByte(data + 1); for n = 1 put(*data) alone
RECURSIVE putNextByte(_, _, _)
putNextByte(st, data, n) ==
    IF n = 1 THEN SPIMaster_put(st, Head(data))
    ELSE putNextByte(SPIMaster_put(st, Head(data)), Tail(data), n - 1)

\* ShiftRegister<SPIMaster, SSPin, n>::put(const uint8_t * data)
ShiftRegister_put(st, data, n) == SSPin_high(putNextByte(SSPin_low(st), data, n))

\* _74HC595<SPIMaster, SSPin, n>::putDaisyChain(data): put(*data), then
\* NextDevice::putDaisyChain(data + 1); for n = 1 put(*data) alone
RECURSIVE putDaisyChain(_, _, _)
putDaisyChain(st, data, n) ==
    IF n = 1 THEN SPIMaster_put(st, Head(data))
    ELSE putDaisyChain(SPIMaster_put(st, Head(data)), Tail(data), n - 1)

\* _74HC595<SPIMaster, SSPin, n>::put(const uint8_t * data)
_74HC595_put(st, data, n) == SSPin_high(putDaisyChain(SSPin_low(st), data, n))

\* a call with its chain length and the array it was given
PutOp(name, n, data) == [name |-> name, pin |-> n, data |-> data]

Call_ShiftRegister_put(n, data) ==
    /\ Returned(ShiftRegister_put(St0, data, n))
    /\ lastOp' = PutOp("ShiftRegister::put", n, data)
    /\ result' = -1
    /\ UNCHANGED <<config, pins, s_callback, device, isr, fg, transitions>>

\* ShiftRegister<SPIMaster, SSPin, 1>::put(const uint8_t data): put(&data)
Call_ShiftRegister_putByte(byte) ==
    /\ Returned(ShiftRegister_put(St0, << byte >>, 1))
    /\ lastOp' = PutOp("ShiftRegister::put(uint8_t)", 1, << byte >>)
    /\ result' = -1
    /\ UNCHANGED <<config, pins, s_callback, device, isr, fg, transitions>>

Call_74HC595_put(n, data) ==
    /\ Returned(_74HC595_put(St0, data, n))
    /\ lastOp' = PutOp("74HC595::put", n, data)
    /\ result' = -1
    /\ UNCHANGED <<config, pins, s_callback, device, isr, fg, transitions>>

\* _74HC595<SPIMaster, SSPin, 1>::put(const uint8_t data): put(&data)
Call_74HC595_putByte(byte) ==
    /\ Returned(_74HC595_put(St0, << byte >>, 1))
    /\ lastOp' = PutOp("74HC595::put(uint8_t)", 1, << byte >>)
    /\ result' = -1
    /\ UNCHANGED <<config, pins, s_callback, device, isr, fg, transitions>>

-----------------------------------------------------------------------------
(* SpecShift: the two shift register drivers, for every chain length up to  *)
(* MaxChain and every array of at least that many bytes                      *)

\* the longest chain, and the longest array
MaxChain == 3

ChainLengths == 1 .. MaxChain

\* the bytes of the arrays
ShiftData == {0, 1, 64, 255}

\* the arrays a chain of n bytes may be given: at least n bytes
ShiftArrays(n) == UNION {[1 .. l -> ShiftData] : l \in n .. MaxChain}

InitShift ==
    /\ config = << >>
    /\ reg = NoRegisters
    /\ pins = 65535
    /\ s_callback = [i \in PinIdx |-> "unset"]
    /\ lastOp = Op("none", -1)
    /\ trace = << >>
    /\ result = -1
    /\ SSPin = TRUE
    /\ bus = << >>
    /\ device = "simulated"
    /\ isr = IsrIdle
    /\ fg = FgIdle
    /\ transitions = 0

NextShift ==
    \/ \E n \in ChainLengths : \E data \in ShiftArrays(n) : Call_ShiftRegister_put(n, data)
    \/ \E byte \in ShiftData : Call_ShiftRegister_putByte(byte)
    \/ \E n \in ChainLengths : \E data \in ShiftArrays(n) : Call_74HC595_put(n, data)
    \/ \E byte \in ShiftData : Call_74HC595_putByte(byte)

SpecShift == InitShift /\ [][NextShift]_vars

\* the bus log of one frame that sends the first n bytes of data
ChainFrame(data, n) ==
    << BusEvent("SS_low", -1) >> \o [k \in 1 .. n |-> BusEvent("put", data[k])]
        \o << BusEvent("SS_high", -1) >>

(* C37: for a chain of n bytes, put(data) of the ShiftRegister class and of  *)
(* the _74HC595 class drives the select pin low, sends the n bytes data[0]   *)
(* .. data[n-1] in this order and no other byte, and drives the select pin   *)
(* high: the bus shows one frame of n bytes, whatever the array holds behind *)
(* them, and the select pin is high when the call returns.                   *)
C37_ChainFrame ==
    lastOp.name # "none" =>
        /\ lastOp.pin \in ChainLengths
        /\ Len(lastOp.data) >= lastOp.pin
        /\ bus = ChainFrame(lastOp.data, lastOp.pin)
        /\ Len(bus) = lastOp.pin + 2
        /\ \A k \in 1 .. Len(bus) : bus[k].ev # "put" <=> k \in {1, Len(bus)}
        /\ SSPin

\* a chain of two bytes was sent from an array of three: the frame holds the
\* first two bytes in the order of the array
C37_Witness ==
    /\ lastOp = PutOp("74HC595::put", 2, << 255, 0, 64 >>)
    /\ SSPin
    /\ bus = << BusEvent("SS_low", -1), BusEvent("put", 255), BusEvent("put", 0),
                BusEvent("SS_high", -1) >>

-----------------------------------------------------------------------------
(* HD44780.h: the two low-level drivers of the character display in 4-bit   *)
(* mode.  HD44780_ParallelPort drives the data lines D4..D7 from a 4-pin     *)
(* port and has pins for EN and RS; HD44780_Configuration_74HC595 shifts a   *)
(* byte into a shift register whose outputs are the data lines (bits 4..7)   *)
(* and RS (bit 2), and pulses the select pin as the enable pulse.  The pin   *)
(* and port operations are logged on `bus` as the SPI operations are; the    *)
(* delays change no state.                                                   *)

PinEvent(st, ev, value) == [st EXCEPT !.bus = Append(@, BusEvent(ev, value))]

\* HD44780_ParallelPort::writeEnable(): EN_Pin::high(), EN_Pin::low()
HD44780_ParallelPort_writeEnable(st) ==
    PinEvent(PinEvent(st, "EN_high", -1), "EN_low", -1)

\* HD44780_ParallelPort::write4Bit(data): PB_Port::write(data >> 4), the
\* upper nibble of the byte, then writeEnable()
HD44780_ParallelPort_write4Bit(st, data) ==
    HD44780_ParallelPort_writeEnable(PinEvent(st, "PB_write", (data % 256) \div 16))

\* HD44780_ParallelPort::write8Bit(data, RS): RS_Pin::write(RS),
\* write4Bit(data), write4Bit(data << 4)
HD44780_ParallelPort_write8Bit(st, data, RS) ==
    LET s1 == PinEvent(st, "RS_write", IF RS THEN 1 ELSE 0)
        s2 == HD44780_ParallelPort_write4Bit(s1, data)
    IN  HD44780_ParallelPort_write4Bit(s2, (data * 16) % 256)

\* HD44780_ParallelPort::init(): the pins as outputs, all outputs cleared,
\* write4Bit(0x30), writeEnable(), writeEnable(), write4Bit(0x20)
HD44780_ParallelPort_init(st) ==
    LET s1 == PinEvent(st, "PB_write", 0)
        s2 == PinEvent(s1, "EN_low", -1)
        s3 == PinEvent(s2, "RS_write", 0)
        s4 == HD44780_ParallelPort_write4Bit(s3, 48)
        s5 == HD44780_ParallelPort_writeEnable(s4)
        s6 == HD44780_ParallelPort_writeEnable(s5)
    IN  HD44780_ParallelPort_write4Bit(s6, 32)

\* HD44780_Configuration_74HC595::writeEnable(): SS_Pin::low(), SS_Pin::high()
HD44780_Configuration_74HC595_writeEnable(st) == SSPin_high(SSPin_low(st))

\* the byte of the union in write4Bit: dummy:2 (bits 0..1) = 0, RS:1 (bit 2),
\* backlight:1 (bit 3) = false, DB:4 (bits 4..7) = data, cut to four bits
BufferByte(data, RS) == (data % 16) * 16 + (IF RS THEN 4 ELSE 0)

\* HD44780_Configuration_74HC595::write4Bit(data, RS): SPIMaster::put(
\* buffer.byte), then writeEnable()
HD44780_Configuration_74HC595_write4Bit(st, data, RS) ==
    HD44780_Configuration_74HC595_writeEnable(SPIMaster_put(st, BufferByte(data, RS)))

\* HD44780_Configuration_74HC595::write8Bit(data, RS): write4Bit(data >> 4,
\* RS), write4Bit(data, RS)
HD44780_Configuration_74HC595_write8Bit(st, data, RS) ==
    HD44780_Configuration_74HC595_write4Bit(
        HD44780_Configuration_74HC595_write4Bit(st, (data % 256) \div 16, RS), data, RS)

\* HD44780_Configuration_74HC595::init(): write4Bit(0x30), writeEnable(),
\* writeEnable(), write4Bit(0x20)
HD44780_Configuration_74HC595_init(st) ==
    LET s1 == HD44780_Configuration_74HC595_write4Bit(st, 48, FALSE)
        s2 == HD44780_Configuration_74HC595_writeEnable(s1)
        s3 == HD44780_Configuration_74HC595_writeEnable(s2)
    IN  HD44780_Configuration_74HC595_write4Bit(s3, 32, FALSE)

\* a call of the display driver: name is the function, byte its argument
LcdCall(s, name, byte) ==
    /\ Returned(s)
    /\ lastOp' = Op(name, byte)
    /\ result' = -1
    /\ UNCHANGED <<config, pins, s_callback, device, isr, fg, transitions>>

Call_ParallelPort_init == LcdCall(HD44780_ParallelPort_init(St0), "ParallelPort::init", -1)

\* writeCommand(command): write8Bit(command, false)
Call_ParallelPort_writeCommand(command) ==
    LcdCall(HD44780_ParallelPort_write8Bit(St0, command, FALSE),
            "ParallelPort::writeCommand", command)

\* writeData(data): write8Bit(data, true)
Call_ParallelPort_writeData(data) ==
    LcdCall(HD44780_ParallelPort_write8Bit(St0, data, TRUE), "ParallelPort::writeData", data)

Call_74HC595_init ==
    LcdCall(HD44780_Configuration_74HC595_init(St0), "Configuration_74HC595::init", -1)

\* writeCommand(data): write8Bit(data, false)
Call_74HC595_writeCommand(data) ==
    LcdCall(HD44780_Configuration_74HC595_write8Bit(St0, data, FALSE),
            "Configuration_74HC595::writeCommand", data)

\* writeData(data): write8Bit(data, true)
Call_74HC595_writeData(data) ==
    LcdCall(HD44780_Configuration_74HC595_write8Bit(St0, data, TRUE),
            "Configuration_74HC595::writeData", data)

-----------------------------------------------------------------------------
(* SpecLcd: the two low-level display drivers, side by side                 *)

\* the nibbles the command and data bytes are made of
LcdNibbles == {0, 2, 3, 10, 15}

LcdBytes == {h * 16 + l : h \in LcdNibbles, l \in LcdNibbles}

InitLcd ==
    /\ config = << >>
    /\ reg = NoRegisters
    /\ pins = 65535
    /\ s_callback = [i \in PinIdx |-> "unset"]
    /\ lastOp = Op("none", -1)
    /\ trace = << >>
    /\ result = -1
    /\ SSPin = TRUE
    /\ bus = << >>
    /\ device = "simulated"
    /\ isr = IsrIdle
    /\ fg = FgIdle
    /\ transitions = 0

NextLcd ==
    \/ Call_ParallelPort_init
    \/ \E b \in LcdBytes : Call_ParallelPort_writeCommand(b)
    \/ \E b \in LcdBytes : Call_ParallelPort_writeData(b)
    \/ Call_74HC595_init
    \/ \E b \in LcdBytes : Call_74HC595_writeCommand(b)
    \/ \E b \in LcdBytes : Call_74HC595_writeData(b)

SpecLcd == InitLcd /\ [][NextLcd]_vars

\* the value of the last event ev of the log before position k, -1 without one
LastValue(ev, k) ==
    LET J == {j \in 1 .. k : bus[j].ev = ev}
    IN  IF J = {} THEN -1 ELSE bus[CHOOSE j \in J : \A i \in J : i <= j].byte

\* the positions of the enable pulses in the log: the rising edge of EN, or
\* the falling edge of the select pin
Pulses == Ascending({k \in 1 .. Len(bus) : bus[k].ev \in {"EN_high", "SS_low"}})

\* what the display sees on its data lines and on RS at each enable pulse
Delivered ==
    [p \in 1 .. Len(Pulses) |->
        IF bus[Pulses[p]].ev = "EN_high"
        THEN [DB |-> LastValue("PB_write", Pulses[p]), RS |-> LastValue("RS_write", Pulses[p])]
        ELSE [DB |-> LastValue("put", Pulses[p]) \div 16,
              RS |-> (LastValue("put", Pulses[p]) \div 4) % 2]]

(* C36: init() of HD44780_Configuration_74HC595 delivers to the display what *)
(* init() of HD44780_ParallelPort delivers: four enable pulses with the data  *)
(* nibbles 0x3, 0x3, 0x3 and 0x2, each with RS = 0.                           *)
C36_InitNibbles ==
    lastOp.name \in {"Configuration_74HC595::init", "ParallelPort::init"} =>
        Delivered = << [DB |-> 3, RS |-> 0], [DB |-> 3, RS |-> 0],
                       [DB |-> 3, RS |-> 0], [DB |-> 2, RS |-> 0] >>

\* init() of the shift register variant has run: it shifted out the byte 0x00
\* twice, the four enable pulses deliver the nibble 0x0
C36_Witness ==
    /\ lastOp.name = "Configuration_74HC595::init"
    /\ [k \in 1 .. Len(bus) |-> bus[k].ev] =
          <<"put", "SS_low", "SS_high", "SS_low", "SS_high", "SS_low", "SS_high",
            "put", "SS_low", "SS_high">>
    /\ bus[1].byte = 0 /\ bus[8].byte = 0
    /\ Delivered = [p \in 1 .. 4 |-> [DB |-> 0, RS |-> 0]]

-----------------------------------------------------------------------------
(* The arithmetic of an image.  _BV(idx) is 1 << idx, an int expression; int *)
(* has 16 bits on the AVR, where 1 << 15 is the int -32768.  The sixteen      *)
(* terms are added as ints, in the order B0 .. B7, A0 .. A7, and the sum is   *)
(* converted to the uint16_t parameter of writeRegisterPair().                *)

\* the value of a 16-bit int with the bits of x
Int16(x) == ((x + 32768) % 65536) - 32768

\* the term of index i in the image for the register pair at addr
Term(addr, i) == IF PinBit(addr, PinTypeOf(i)) THEN Int16(BV(i)) ELSE 0

\* the sum of the terms of the indices below k, as an integer
RECURSIVE SumBelow(_, _)
SumBelow(addr, k) == IF k = 0 THEN 0 ELSE SumBelow(addr, k - 1) + Term(addr, k - 1)

\* conversion to uint16_t
Uint16(x) == x % 65536

\* the bitwise OR of the sixteen terms
OrOfTerms(addr) == WordOf({i \in PinIdx : PinBit(addr, PinTypeOf(i))})

(* C38: each image init() writes is the sum of sixteen terms, 2^i or 0 for   *)
(* index i: no partial sum leaves the range of a 16-bit int, the sum         *)
(* converted to 16 bits is the bitwise OR of the terms, it is the word the    *)
(* transaction carries (high byte, then low byte) and the device holds; a     *)
(* switch on A7 alone gives 0x8000, input types on all sixteen pins 0xFFFF.   *)
C38_SumIsOrIn16Bits ==
    lastOp.name = "init" =>
        /\ \A addr \in ImageRegs :
              /\ \A i \in PinIdx : Term(addr, i) \in {0, Int16(BV(i))}
              /\ \A k \in 0 .. NumPins : SumBelow(addr, k) \in -32768 .. 32767
              /\ Written(addr) = Uint16(SumBelow(addr, NumPins))
              /\ Written(addr) = OrOfTerms(addr)
              /\ Written(addr) \in 0 .. 65535
              /\ DevWord(reg, addr) = Written(addr)
              /\ \E k \in 1 .. Len(bus) - 3 :
                    /\ bus[k] = BusEvent("put", OPCODE_WRITE)
                    /\ bus[k + 1] = BusEvent("put", addr)
                    /\ bus[k + 2] = BusEvent("put", Hi(OrOfTerms(addr)))
                    /\ bus[k + 3] = BusEvent("put", Lo(OrOfTerms(addr)))
        /\ config = << MCP23S17PinConfig(A7, "SWITCH") >> => Written(IODIRA) = 32768
        /\ config \in FullPacks => Written(IODIRA) = 65535 /\ Written(GPPUA) = 65535

\* init() has run for the pack with a switch on every pin: four images are
\* 0xFFFF, the sum of the sixteen int terms is -1
C38_Witness ==
    /\ lastOp.name = "init"
    /\ Len(config) = NumPins
    /\ \A i \in PinIdx : PinTypeOf(i) = "SWITCH"
    /\ SumBelow(GPINTENA, NumPins - 1) = 32767
    /\ SumBelow(GPINTENA, NumPins) = -1
    /\ Written(GPINTENA) = 65535
    /\ DevWord(reg, IODIRA) = 65535

=============================================================================
